---- MODULE Spec2Model ----
(***************************************************************************)
(* Model of django-google-indexer: the address index maintained by         *)
(* EmailIndexingService over the GoogleMailMessage / IndexedEmailAddress / *)
(* MessageEmailAddress tables, and the cursor based synchronisation of     *)
(* MessageSyncService.                                                     *)
(***************************************************************************)
EXTENDS Integers, Sequences, FiniteSets, Bags, TLC

VARIABLES messages,   \* GoogleMailMessage table: <<account_email, message_id>> -> row
          rels,       \* MessageEmailAddress table: a bag of rows
          addrs,      \* IndexedEmailAddress table: email -> row
          bulk,       \* the running bulk_index_messages call (rebuild / fix_missing),
                      \* or the running cleanup_orphaned_emails call
          last,       \* the last completed operation and what it returned
          nops,       \* number of operations started
          cursor,     \* SyncState table: account_email -> last_history_id
          sync        \* the running sync_messages call

vars == <<messages, rels, addrs, bulk, last, nops, cursor, sync>>

(***************************************************************************)
(* Bounds                                                                  *)
(***************************************************************************)
MaxBatch == 2     \* largest batch_size tried
MaxOps == 3       \* operations per behaviour

(***************************************************************************)
(* Values                                                                  *)
(***************************************************************************)
Accounts == {"a1", "a2"}
NoAccount == ""                 \* account_email=None: `if account_email` is false
None == <<>>                    \* a NULL column
Some(v) == <<v>>

Dates == {1000, 2000}           \* internal_date, milliseconds
Raws == 0 .. 2                  \* opaque raw contents

MsgIds == 1 .. 2                \* message_id values

\* the (account_email, message_id) identities of the index specification
MsgKeys == {<<"a1", i>> : i \in MsgIds} \cup {<<"a2", 1>>}

EmailAddress(n, e) == [name |-> n, email |-> e]

\* GoogleMailMessage.header_from: parseaddr of the From header of the raw content
header_from(raw) ==
    CASE raw = 2 -> EmailAddress("Bee", "b@x")
      [] OTHER   -> EmailAddress("", "")

\* GoogleMailMessage.header_to: one EmailAddress per To header
header_to(raw) ==
    CASE raw = 1 -> <<EmailAddress("Al", "A@x"), EmailAddress("=?utf-8?q?Bo?=", "b@x")>>
      [] raw = 2 -> <<EmailAddress("", "a@x"), EmailAddress("Al", "A@x")>>
      [] OTHER   -> <<>>

\* GoogleMailMessage.header_cc
header_cc(raw) ==
    CASE raw = 1 -> <<EmailAddress("", "B@x")>>
      [] raw = 2 -> <<EmailAddress("Cy", "c@x")>>
      [] OTHER   -> <<>>

\* email_addr.email.lower().strip()
Normalize(email) ==
    CASE email = "A@x" -> "a@x"
      [] email = "B@x" -> "b@x"
      [] OTHER         -> email

\* EmailIndexingService.decode_name: MIME decoding of a display name
decode_name(name) ==
    CASE name = "=?utf-8?q?Bo?=" -> "Bo"
      [] OTHER                   -> name

\* timezone.make_aware(datetime.fromtimestamp(ms / 1000.0)): an instant, in microseconds
make_aware(ms) == Some(ms * 1000)

(***************************************************************************)
(* Queries on the tables                                                   *)
(***************************************************************************)
RestrictBag(b, S) == [r \in S |-> b[r]]

\* rows of the through table that belong to message k
RowsOfMessage(rs, k) == {r \in DOMAIN rs : r.message = k}

\* rows of the through table that belong to address e
RowsOfEmail(rs, e) == {r \in DOMAIN rs : r.email_address = e}

\* indexed_email.messages.count() and Count('messages'): the join has one line
\* per through row, so a message is counted once per row
messages_count(rs, e) == BagCardinality(RestrictBag(rs, RowsOfEmail(rs, e)))

\* MessageEmailAddress.objects.filter(message=message).delete(), and the
\* on_delete=CASCADE of MessageEmailAddress.message
DeleteRowsOfMessage(rs, k) == RestrictBag(rs, DOMAIN rs \ RowsOfMessage(rs, k))

\* on_delete=CASCADE of MessageEmailAddress.email_address
DeleteRowsOfEmails(rs, E) == RestrictBag(rs, {r \in DOMAIN rs : r.email_address \notin E})

\* GoogleMailMessage.objects.all(), filtered by account when one is given
Scope(msgs, acc) ==
    IF acc # NoAccount THEN {k \in DOMAIN msgs : k[1] = acc} ELSE DOMAIN msgs

\* messages_queryset.exclude(id__in=MessageEmailAddress.objects.values('message_id'))
MissingMessages(msgs, rs, acc) ==
    {k \in Scope(msgs, acc) : RowsOfMessage(rs, k) = {}}

Min(S) == CHOOSE x \in S : \A y \in S : x <= y
Max(S) == CHOOSE x \in S : \A y \in S : x >= y

(***************************************************************************)
(* index_message_emails                                                    *)
(***************************************************************************)
\* faulty variant: objects.create instead of get_or_create
relationship_create(rs, row) == rs (+) SetToBag({row})

\* MessageEmailAddress.objects.get_or_create(message, email_address, field, defaults)
relationship_get_or_create(rs, row) ==
    IF \E r \in DOMAIN rs : /\ r.message = row.message
                            /\ r.email_address = row.email_address
                            /\ r.field = row.field
    THEN rs
    ELSE rs (+) SetToBag({row})

\* IndexedEmailAddress.objects.get_or_create(email, defaults)
address_get_or_create(as, email, name) ==
    IF email \in DOMAIN as
    THEN as
    ELSE as @@ (email :> [display_name |-> name, message_count |-> 0,
                          first_seen |-> None, last_seen |-> None])

\* a name that replaces the stored one                    (faulty variant)
better_display_name_latest(stored, name) == IF name # "" THEN name ELSE stored

\* "if name and not indexed_email.display_name": the stored name is kept
\* unless it is empty
better_display_name(stored, name) ==
    IF name # "" /\ stored = "" THEN name ELSE stored

\* EmailIndexingService._create_email_relationship, on st = [rels, addrs, created]
create_email_relationship(st, k, email_addr, field_name) ==
    LET normalized_email == Normalize(email_addr.email)
        decoded_name == IF email_addr.name # "" THEN decode_name(email_addr.name) ELSE ""
        a1 == address_get_or_create(st.addrs, normalized_email, decoded_name)
        a2 == [a1 EXCEPT ![normalized_email].display_name =
                                better_display_name(@, decoded_name)]
        row == [message |-> k, email_address |-> normalized_email,
                field |-> field_name, display_name |-> decoded_name]
        r2 == relationship_get_or_create(st.rels, row)
    IN  IF normalized_email = ""
        THEN st
        ELSE [rels |-> r2, addrs |-> a2,
              created |-> st.created + (IF r2 = st.rels THEN 0 ELSE 1)]

\* faulty variant: the sender is filed under 'to'
email_field_mapping_sender_as_to(raw) ==
    LET tag(f, s) == [i \in 1 .. Len(s) |-> [field |-> f, addr |-> s[i]]]
    IN  tag("to", <<header_from(raw)>>) \o tag("to", header_to(raw))
            \o tag("cc", header_cc(raw))

\* the email_field_mapping of index_message_emails, flattened in iteration order;
\* header_from is a namedtuple and so always true: it is always listed
email_field_mapping(raw) ==
    LET tag(f, s) == [i \in 1 .. Len(s) |-> [field |-> f, addr |-> s[i]]]
    IN  tag("from", <<header_from(raw)>>) \o tag("to", header_to(raw))
            \o tag("cc", header_cc(raw))

RECURSIVE create_relationships(_, _, _)
create_relationships(st, k, pairs) ==
    IF pairs = <<>>
    THEN st
    ELSE LET p == Head(pairs)
             st1 == IF p.addr.email # ""
                    THEN create_email_relationship(st, k, p.addr, p.field)
                    ELSE st
         IN  create_relationships(st1, k, Tail(pairs))

\* a recount that drops the addresses it finds unused      (faulty variant)
update_message_counts_for_message_pruning(rs, as, k) ==
    [e \in {a \in DOMAIN as : messages_count(rs, a) > 0} |->
        [as[e] EXCEPT !.message_count = messages_count(rs, e)]]

\* EmailIndexingService._update_message_counts_for_message
update_message_counts_for_message(rs, as, k) ==
    [e \in DOMAIN as |->
        IF \E r \in RowsOfMessage(rs, k) : r.email_address = e
        THEN [as[e] EXCEPT !.message_count = messages_count(rs, e)]
        ELSE as[e]]

\* EmailIndexingService.index_message_emails, the committed transaction
index_message_emails(msgs, rs, as, k, update_counts) ==
    LET cleared == DeleteRowsOfMessage(rs, k)
        st == create_relationships([rels |-> cleared, addrs |-> as, created |-> 0],
                                   k, email_field_mapping(msgs[k].raw))
    IN  [rels |-> st.rels,
         addrs |-> IF update_counts
                   THEN update_message_counts_for_message(st.rels, st.addrs, k)
                   ELSE st.addrs,
         created |-> st.created]

\* the tables inside the transaction of index_message_emails when an
\* exception is raised after the old relationships were deleted and the
\* first n entries of the field mapping were handled
index_message_emails_interrupted(msgs, rs, as, k, n) ==
    LET cleared == DeleteRowsOfMessage(rs, k)
        pairs == email_field_mapping(msgs[k].raw)
        st == create_relationships([rels |-> cleared, addrs |-> as, created |-> 0],
                                   k, SubSeq(pairs, 1, n))
    IN  [rels |-> st.rels, addrs |-> st.addrs]

\* an exception that leaves the writes made so far        (faulty variant)
transaction_left_open(before, inside) == inside

\* `with transaction.atomic()` left by an exception: the writes are undone
transaction_rollback(before, inside) == before

(***************************************************************************)
(* Whole-table operations                                                  *)
(***************************************************************************)
\* a recomputation that writes nothing                      (faulty variant)
update_all_message_counts_skipped(msgs, rs, as) == as

\* EmailIndexingService.update_all_message_counts
update_all_message_counts(msgs, rs, as) ==
    [e \in DOMAIN as |->
        LET message_count == messages_count(rs, e)
            dates == {msgs[r.message].internal_date : r \in RowsOfEmail(rs, e)}
        IN  IF message_count > 0
            THEN [as[e] EXCEPT !.message_count = message_count,
                               !.first_seen = make_aware(Min(dates)),
                               !.last_seen = make_aware(Max(dates))]
            ELSE as[e]]

\* orphans selected by their stored message_count           (faulty variant)
orphaned_emails_by_stored_count(rs, as) == {e \in DOMAIN as : as[e].message_count = 0}

\* the rows update_all_message_counts calls save() on: every address with a
\* relationship, whatever its stored values
saved_by_update_all_message_counts(rs, as) ==
    {e \in DOMAIN as : messages_count(rs, e) > 0}

\* the orphaned_emails queryset: annotate(Count('messages')).filter(= 0)
orphaned_emails(rs, as) == {e \in DOMAIN as : messages_count(rs, e) = 0}

\* a cleanup that deletes nothing                           (faulty variant)
cleanup_orphaned_emails_kept(rs, as) == as

\* EmailIndexingService.cleanup_orphaned_emails: the table after the delete
cleanup_orphaned_emails(rs, as) ==
    [e \in DOMAIN as \ orphaned_emails(rs, as) |-> as[e]]

\* EmailIndexingService.validate_index
validate_index(msgs, rs, as, acc) ==
    LET total_messages == Cardinality(Scope(msgs, acc))
        missing_count == Cardinality(MissingMessages(msgs, rs, acc))
        orphaned_count == Cardinality(orphaned_emails(rs, as))
        inconsistent_count ==
            Cardinality({e \in DOMAIN as : as[e].message_count # messages_count(rs, e)})
        total_issues == missing_count + orphaned_count + inconsistent_count
    IN  [total_messages |-> total_messages,
         missing_messages |-> missing_count,
         orphaned_emails |-> orphaned_count,
         inconsistent_counts |-> inconsistent_count,
         total_issues |-> total_issues,
         is_valid |-> (total_issues = 0)]

(***************************************************************************)
(* The stored messages of the index specification                          *)
(***************************************************************************)
IndexMsgRow(r, d) ==
    [raw |-> r, internal_date |-> d, history_id |-> "h1", thread_id |-> "t1",
     label_ids |-> {}, is_read |-> FALSE, is_starred |-> FALSE,
     is_important |-> FALSE, copies |-> 1]

\* the stores the index specification starts from: any content for the messages
\* of a1, one message of a2; two of the messages share their date
IndexStores ==
    {f \in [MsgKeys -> {IndexMsgRow(r, d) : r \in Raws, d \in Dates}] :
        \A k \in MsgKeys :
            /\ f[k].internal_date = (IF k[2] % 2 = 1 THEN 2000 ELSE 1000)
            /\ k[1] = "a2" => f[k].raw = 2}

BulkIdle ==
    [pc |-> "idle", kind |-> "", acc |-> NoAccount, batch_size |-> 0, total |-> 0,
     batch_start |-> 0, processed |-> 0, errors |-> 0, order |-> <<>>,
     attempted |-> <<>>, missing |-> {}, failed |-> {}, selected |-> {},
     indexed_before |-> {}, txns |-> <<>>]

SyncIdle ==
    [pc |-> "idle", acc |-> NoAccount, force |-> FALSE, max_results |-> 0,
     label_filter |-> <<>>, stats |-> <<>>, todo |-> <<>>, had_cursor |-> FALSE,
     local_before |-> 0, start |-> None, history_calls |-> 0, full_syncs |-> 0,
     expired |-> FALSE, remote_count |-> 0, feed_error |-> FALSE,
     cursor_before |-> None, label_lookups |-> 0, list_calls |-> 0,
     raw_requests |-> 0, item_failures |-> 0, items_done |-> 0, removed |-> {},
     largs |-> [label_ids |-> <<>>, label_names |-> <<>>]]

Done(op, acc, msg, ok, res) ==
    [op |-> op, acc |-> acc, msg |-> msg, ok |-> ok, res |-> res]

IndexInit ==
    /\ messages \in IndexStores
    /\ rels = EmptyBag
    /\ addrs = <<>>
    /\ bulk = BulkIdle
    /\ last = Done("init", NoAccount, <<>>, TRUE, <<>>)
    /\ nops = 0
    /\ cursor = <<>>
    /\ sync = SyncIdle

Idle == bulk.pc = "idle" /\ sync.pc = "idle" /\ nops < MaxOps

(***************************************************************************)
(* Single operations                                                       *)
(***************************************************************************)
\* one call of index_message_emails; an exception rolls the transaction back
IndexMessage(k, update_counts, fail) ==
    /\ Idle
    /\ nops' = nops + 1
    /\ k \in DOMAIN messages
    /\ LET st == index_message_emails(messages, rels, addrs, k, update_counts)
       IN  /\ IF fail
              THEN \E n \in 0 .. Len(email_field_mapping(messages[k].raw)) :
                     LET undone == transaction_rollback(
                                     [rels |-> rels, addrs |-> addrs],
                                     index_message_emails_interrupted(
                                         messages, rels, addrs, k, n))
                     IN  rels' = undone.rels /\ addrs' = undone.addrs
              ELSE rels' = st.rels /\ addrs' = st.addrs
           /\ last' = Done("index", k[1], k, ~fail,
                           [update_counts |-> update_counts,
                            created |-> IF fail THEN 0 ELSE st.created,
                            repeat |-> (last.op = "index" /\ last.ok /\ last.msg = k)])
    /\ UNCHANGED <<messages, bulk>>
    /\ UNCHANGED <<cursor, sync>>

UpdateAllCounts ==
    /\ Idle
    /\ nops' = nops + 1
    /\ addrs' = update_all_message_counts(messages, rels, addrs)
    /\ last' = Done("update_all_message_counts", NoAccount, <<>>, TRUE,
                    [saved |-> saved_by_update_all_message_counts(rels, addrs),
                     changed |-> {e \in DOMAIN addrs :
                        update_all_message_counts(messages, rels, addrs)[e] # addrs[e]}])
    /\ UNCHANGED <<messages, rels, bulk>>
    /\ UNCHANGED <<cursor, sync>>

CleanupOrphans ==
    /\ Idle
    /\ nops' = nops + 1
    /\ addrs' = cleanup_orphaned_emails(rels, addrs)
    /\ rels' = DeleteRowsOfEmails(rels, orphaned_emails(rels, addrs))
    /\ last' = Done("cleanup_orphaned_emails", NoAccount, <<>>, TRUE,
                    Cardinality(orphaned_emails(rels, addrs)))
    /\ UNCHANGED <<messages, bulk>>
    /\ UNCHANGED <<cursor, sync>>

\* EmailIndexingService.maintenance_cleanup
MaintenanceCleanup ==
    /\ Idle
    /\ nops' = nops + 1
    /\ LET a1 == cleanup_orphaned_emails(rels, addrs)
           r1 == DeleteRowsOfEmails(rels, orphaned_emails(rels, addrs))
       IN  /\ rels' = r1
           /\ addrs' = update_all_message_counts(messages, r1, a1)
           /\ last' = Done("maintenance_cleanup", NoAccount, <<>>, TRUE,
                           [orphaned_emails_removed |->
                                Cardinality(orphaned_emails(rels, addrs)),
                            message_counts_updated |-> TRUE,
                            drift_before |->
                                validate_index(messages, rels, addrs, NoAccount)
                                    .inconsistent_counts > 0])
    /\ UNCHANGED <<messages, bulk>>
    /\ UNCHANGED <<cursor, sync>>

\* a validation that removes the orphans it finds          (faulty variant)
addresses_after_validate_repaired(rs, as) == cleanup_orphaned_emails(rs, as)

\* validate_index only counts: its querysets are never saved or deleted
addresses_after_validate(rs, as) == as

ValidateIndex(acc) ==
    /\ Idle
    /\ nops' = nops + 1
    /\ addrs' = addresses_after_validate(rels, addrs)
    /\ last' = Done("validate_index", acc, <<>>, TRUE,
                    [report |-> validate_index(messages, rels, addrs, acc),
                     after_rebuild |-> (last.op = "rebuild_index" /\ last.acc = acc)])
    /\ UNCHANGED <<messages, rels, bulk>>
    /\ UNCHANGED <<cursor, sync>>

\* EmailIndexingService.clear_index
ClearIndex ==
    /\ Idle
    /\ nops' = nops + 1
    /\ rels' = EmptyBag
    /\ addrs' = <<>>
    /\ last' = Done("clear_index", NoAccount, <<>>, TRUE, <<>>)
    /\ UNCHANGED <<messages, bulk>>
    /\ UNCHANGED <<cursor, sync>>

\* a stored message is deleted (a deletion record of an incremental sync):
\* its through rows go with it
DeleteMessage(k) ==
    /\ Idle
    /\ nops' = nops + 1
    /\ k \in DOMAIN messages
    /\ messages' = [j \in DOMAIN messages \ {k} |-> messages[j]]
    /\ rels' = DeleteRowsOfMessage(rels, k)
    /\ last' = Done("delete_message", k[1], k, TRUE, <<>>)
    /\ UNCHANGED <<addrs, bulk>>
    /\ UNCHANGED <<cursor, sync>>

(***************************************************************************)
(* bulk_index_messages, and its callers rebuild_index and                  *)
(* fix_missing_entries.  One step per batch (one transaction.atomic each). *)
(***************************************************************************)
\* Meta.ordering = ['-internal_date']: the orders the database may return the
\* messages of S in; the order among equal dates is the database's choice
Orderings(msgs, S) ==
    {s \in [1 .. Cardinality(S) -> S] :
        /\ \A i, j \in DOMAIN s : i # j => s[i] # s[j]
        /\ \A i, j \in DOMAIN s :
               i < j => msgs[s[i]].internal_date >= msgs[s[j]].internal_date}

\* the queryset handed to bulk_index_messages; it is lazy, so it is evaluated
\* against the tables as they are when it is used
bulk_queryset(msgs, rs, b) ==
    IF b.kind = "fix_missing_entries"
    THEN MissingMessages(msgs, rs, b.acc)
    ELSE Scope(msgs, b.acc)

\* messages_queryset[batch_start:batch_end], in the order of b.order
batch_messages(msgs, rs, b) ==
    LET qs == bulk_queryset(msgs, rs, b)
        cur == SelectSeq(b.order, LAMBDA k : k \in qs)
        batch_end == IF b.batch_start + b.batch_size < b.total
                     THEN b.batch_start + b.batch_size ELSE b.total
    IN  SubSeq(cur, b.batch_start + 1,
               IF batch_end < Len(cur) THEN batch_end ELSE Len(cur))

\* a failure that leaves the message's relationships cleared (faulty variant)
index_failure_in_batch_cleared(st, k) ==
    [st EXCEPT !.errors = @ + 1, !.rels = DeleteRowsOfMessage(st.rels, k)]

\* index_message_emails raising inside a batch: its own transaction.atomic()
\* is rolled back, the handler of bulk_index_messages counts the error
index_failure_in_batch(st, k) == [st EXCEPT !.errors = @ + 1]

\* counts recomputed after every message of a batch       (faulty variant)
update_counts_in_batch_on == TRUE

\* the update_counts argument bulk_index_messages passes to index_message_emails
update_counts_in_batch == FALSE

\* the body of one batch: every message is tried, a failure is counted
RECURSIVE process_batch(_, _, _, _)
process_batch(st, msgs, batch, fails) ==
    IF batch = <<>>
    THEN st
    ELSE LET k == Head(batch)
             ix == index_message_emails(msgs, st.rels, st.addrs, k, update_counts_in_batch)
             st1 == IF k \in fails
                    THEN index_failure_in_batch(st, k)
                    ELSE [st EXCEPT !.rels = ix.rels, !.addrs = ix.addrs,
                                    !.processed = @ + 1]
         IN  process_batch(st1, msgs, Tail(batch), fails)

SeqToSet(s) == {s[i] : i \in DOMAIN s}

BulkStart(kind, acc, batch_size, total, order, missing) ==
    [pc |-> IF total > 0 THEN "batch" ELSE "finish", kind |-> kind, acc |-> acc,
     batch_size |-> batch_size, total |-> total, batch_start |-> 0,
     processed |-> 0, errors |-> 0, order |-> order, attempted |-> <<>>,
     missing |-> missing, failed |-> {}, selected |-> {}, indexed_before |-> {},
     txns |-> <<>>]

\* EmailIndexingService.rebuild_index up to the first batch
RebuildIndex(acc, batch_size) ==
    /\ Idle
    /\ nops' = nops + 1
    /\ rels' = EmptyBag
    /\ addrs' = <<>>
    /\ \E order \in Orderings(messages, Scope(messages, acc)) :
           bulk' = [BulkStart("rebuild_index", acc, batch_size,
                              Cardinality(Scope(messages, acc)), order, {})
                       EXCEPT !.indexed_before =
                           {k \in DOMAIN messages \ Scope(messages, acc) :
                               RowsOfMessage(rels, k) # {}}]
    /\ UNCHANGED <<messages, last>>
    /\ UNCHANGED <<cursor, sync>>

\* bulk_index_messages called on the stored messages of a scope, the index
\* left as it is (the index_email_addresses command without --reindex)
BulkIndexMessages(acc, batch_size) ==
    /\ Idle
    /\ nops' = nops + 1
    /\ \E order \in Orderings(messages, Scope(messages, acc)) :
           bulk' = BulkStart("bulk_index_messages", acc, batch_size,
                             Cardinality(Scope(messages, acc)), order, {})
    /\ UNCHANGED <<messages, rels, addrs, last>>
    /\ UNCHANGED <<cursor, sync>>

\* faulty variant: no early return
fix_missing_never_returns_early(missing_count) == FALSE

\* `if missing_count == 0: return` of fix_missing_entries
fix_missing_returns_early(missing_count) == missing_count = 0

\* EmailIndexingService.fix_missing_entries up to the first batch
FixMissingEntries(acc, batch_size) ==
    /\ Idle
    /\ nops' = nops + 1
    /\ LET missing == MissingMessages(messages, rels, acc)
           missing_count == Cardinality(missing)
       IN  IF fix_missing_returns_early(missing_count)
           THEN /\ last' = Done("fix_missing_entries", acc, <<>>, TRUE,
                                [processed_count |-> 0, error_count |-> 0,
                                 missing_count |-> 0, attempted |-> <<>>,
                                 missing |-> {}, batch_size |-> batch_size])
                /\ UNCHANGED bulk
           ELSE /\ \E order \in Orderings(messages, Scope(messages, acc)) :
                       bulk' = BulkStart("fix_missing_entries", acc, batch_size,
                                         missing_count, order, missing)
                /\ UNCHANGED last
    /\ UNCHANGED <<messages, rels, addrs>>
    /\ UNCHANGED <<cursor, sync>>

\* one iteration of `for batch_start in range(0, total_messages, batch_size)`
BulkBatch(fails) ==
    /\ bulk.pc = "batch"
    /\ LET batch == batch_messages(messages, rels, bulk)
           st == process_batch([rels |-> rels, addrs |-> addrs,
                                processed |-> bulk.processed, errors |-> bulk.errors],
                               messages, batch, fails)
           next_start == bulk.batch_start + bulk.batch_size
       IN  /\ fails \subseteq SeqToSet(batch)
           /\ rels' = st.rels
           /\ addrs' = st.addrs
           /\ bulk' = [bulk EXCEPT !.processed = st.processed,
                                   !.errors = st.errors,
                                   !.attempted = @ \o batch,
                                   !.failed = @ \cup fails,
                                   !.batch_start = next_start,
                                   !.pc = IF next_start < bulk.total
                                          THEN "batch" ELSE "finish"]
    /\ UNCHANGED <<messages, last, nops>>
    /\ UNCHANGED <<cursor, sync>>

\* after the last batch: update_all_message_counts and the return value
\* (fix_missing_entries calls update_all_message_counts once more)
BulkFinish ==
    /\ bulk.pc = "finish"
    /\ LET a1 == update_all_message_counts(messages, rels, addrs)
           a2 == IF bulk.kind = "fix_missing_entries"
                 THEN update_all_message_counts(messages, rels, a1)
                 ELSE a1
       IN  addrs' = a2
    /\ last' = Done(bulk.kind, bulk.acc, <<>>, TRUE,
                    [processed_count |-> bulk.processed,
                     error_count |-> bulk.errors,
                     missing_count |-> Cardinality(bulk.missing),
                     attempted |-> bulk.attempted,
                     missing |-> bulk.missing,
                     batch_size |-> bulk.batch_size,
                     indexed_before |-> bulk.indexed_before])
    /\ bulk' = BulkIdle
    /\ UNCHANGED <<messages, rels, nops>>
    /\ UNCHANGED <<cursor, sync>>

(***************************************************************************)
(* The index specification                                                 *)
(***************************************************************************)
\* the account_email arguments tried: None and one account
AccountArgs == {NoAccount, "a1"}

\* the --account the index_email_addresses command is run with
BulkAccount == "a1"

IndexNext ==
    \/ \E k \in MsgKeys, uc \in BOOLEAN, fail \in BOOLEAN : IndexMessage(k, uc, fail)
    \/ UpdateAllCounts
    \/ CleanupOrphans
    \/ MaintenanceCleanup
    \/ \E acc \in AccountArgs : ValidateIndex(acc)
    \/ ClearIndex
    \/ \E k \in MsgKeys : DeleteMessage(k)
    \/ \E acc \in AccountArgs, bs \in 1 .. MaxBatch : RebuildIndex(acc, bs)
    \/ \E acc \in AccountArgs, bs \in 1 .. MaxBatch : FixMissingEntries(acc, bs)
    \/ \E bs \in 1 .. MaxBatch : BulkIndexMessages(BulkAccount, bs)
    \/ \E fails \in SUBSET MsgKeys : BulkBatch(fails)
    \/ BulkFinish

Spec == IndexInit /\ [][IndexNext]_vars

(***************************************************************************)
(* GoogleMailMessage.index_email_addresses, the indexing method of the     *)
(* message itself                                                          *)
(***************************************************************************)
\* the Date header of the raw content, parsed, in microseconds; None when
\* the content has no Date header
header_date(raw) == IF raw = 1 THEN Some(1500000) ELSE None

\* message_date: the Date header, or datetime.fromtimestamp(internal_date / 1000.0)
message_date(row) ==
    IF header_date(row.raw) # None THEN header_date(row.raw)
    ELSE Some(row.internal_date * 1000)

\* email_addr.email.lower()
email_lower(email) ==
    CASE email = "A@x" -> "a@x"
      [] email = "B@x" -> "b@x"
      [] OTHER         -> email

\* one pass of the loop body of index_email_addresses, on st = [rels, addrs]
index_one_address(st, k, date, email_addr, field_name) ==
    LET email == email_lower(email_addr.email)
        created == email \notin DOMAIN st.addrs
        a0 == IF created
              THEN st.addrs @@ (email :> [display_name |-> email_addr.name,
                                          message_count |-> 0,
                                          first_seen |-> date, last_seen |-> date])
              ELSE st.addrs
        row == a0[email]
        named == [row EXCEPT !.display_name = better_display_name(@, email_addr.name)]
        dated == IF created THEN named
                 ELSE [named EXCEPT
                    !.first_seen = IF @ = None \/ date[1] < @[1] THEN date ELSE @,
                    !.last_seen = IF @ = None \/ date[1] > @[1] THEN date ELSE @]
        rel == [message |-> k, email_address |-> email, field |-> field_name,
                display_name |-> email_addr.name]
    IN  [rels |-> relationship_get_or_create(st.rels, rel),
         addrs |-> [a0 EXCEPT ![email] = dated]]

RECURSIVE index_addresses(_, _, _, _)
index_addresses(st, k, date, pairs) ==
    IF pairs = <<>>
    THEN st
    ELSE LET p == Head(pairs)
             st1 == IF p.addr.email # ""
                    THEN index_one_address(st, k, date, p.addr, p.field)
                    ELSE st
         IN  index_addresses(st1, k, date, Tail(pairs))

\* GoogleMailMessage.index_email_addresses
index_email_addresses(msgs, rs, as, k) ==
    LET st == index_addresses([rels |-> DeleteRowsOfMessage(rs, k), addrs |-> as],
                              k, message_date(msgs[k]),
                              email_field_mapping(msgs[k].raw))
    IN  [rels |-> st.rels,
         addrs |-> update_message_counts_for_message(st.rels, st.addrs, k)]

IndexEmailAddresses(k) ==
    /\ Idle
    /\ nops' = nops + 1
    /\ k \in DOMAIN messages
    /\ LET st == index_email_addresses(messages, rels, addrs, k)
       IN  rels' = st.rels /\ addrs' = st.addrs
    /\ last' = Done("index_email_addresses", k[1], k, TRUE, <<>>)
    /\ UNCHANGED <<messages, bulk, cursor, sync>>

(***************************************************************************)
(* maintain_email_index, the task that follows the syncs of                *)
(* sync_configuration                                                      *)
(***************************************************************************)
\* batch_size: int = 1000, the default maintain_email_index leaves in place
DefaultBatchSize == 1000

\* the end of fix_missing_entries after bulk_index_messages left done =
\* [rels, addrs, processed, errors]: update_all_message_counts ran at the end
\* of bulk_index_messages and runs once more
fix_missing_finish(msgs, done) ==
    [rels |-> done.rels,
     addrs |-> update_all_message_counts(
                   msgs, done.rels,
                   update_all_message_counts(msgs, done.rels, done.addrs)),
     error_count |-> done.errors]

\* EmailIndexingService.fix_missing_entries(account_email) with the default
\* batch size: the missing messages fit one batch, taken in the order the
\* database returns them; on st = [rels, addrs]
fix_missing_entries(msgs, st, acc, order, fails) ==
    IF fix_missing_returns_early(Cardinality(MissingMessages(msgs, st.rels, acc)))
    THEN [rels |-> st.rels, addrs |-> st.addrs, error_count |-> 0]
    ELSE fix_missing_finish(
             msgs,
             process_batch(
                 [rels |-> st.rels, addrs |-> st.addrs, processed |-> 0, errors |-> 0],
                 msgs,
                 batch_messages(
                     msgs, st.rels,
                     BulkStart("fix_missing_entries", acc, DefaultBatchSize,
                               Cardinality(MissingMessages(msgs, st.rels, acc)),
                               order, MissingMessages(msgs, st.rels, acc))),
                 fails))

\* EmailIndexingService.maintenance_cleanup, on st = [rels, addrs]
maintenance_cleanup(msgs, st) ==
    [rels |-> DeleteRowsOfEmails(st.rels, orphaned_emails(st.rels, st.addrs)),
     addrs |-> update_all_message_counts(
                   msgs,
                   DeleteRowsOfEmails(st.rels, orphaned_emails(st.rels, st.addrs)),
                   cleanup_orphaned_emails(st.rels, st.addrs))]

\* a maintenance that always runs both repairs              (faulty variant)
repairs_chosen_all(report) == [fix_missing |-> TRUE, cleanup |-> TRUE]

\* the repairs maintain_email_index runs for a validation report
repairs_chosen(report) ==
    [fix_missing |-> report.missing_messages > 0,
     cleanup |-> report.orphaned_emails > 0]

\* the dictionary maintain_email_index returns
maintain_result(validation_results) ==
    [success |-> TRUE,
     issues_fixed |-> validation_results.total_issues,
     missing_messages |-> validation_results.missing_messages,
     orphaned_emails |-> validation_results.orphaned_emails]

\* tasks.maintain_email_index, one run; the messages of fails are those whose
\* indexing raises inside fix_missing_entries
MaintainEmailIndex(acc, fails) ==
    /\ Idle
    /\ nops' = nops + 1
    /\ fails \subseteq MissingMessages(messages, rels, acc)
    /\ \E order \in Orderings(messages, Scope(messages, acc)),
          validation_results \in {validate_index(messages, rels, addrs, acc)} :
         \E fixed \in {IF repairs_chosen(validation_results).fix_missing
                       THEN fix_missing_entries(messages,
                                                [rels |-> rels, addrs |-> addrs],
                                                acc, order, fails)
                       ELSE [rels |-> rels, addrs |-> addrs, error_count |-> 0]} :
           \E cleaned \in {IF repairs_chosen(validation_results).cleanup
                           THEN maintenance_cleanup(messages, fixed)
                           ELSE [rels |-> fixed.rels, addrs |-> fixed.addrs]} :
             /\ rels' = cleaned.rels
             /\ addrs' = cleaned.addrs
             /\ last' = Done("maintain_email_index", acc, <<>>, TRUE,
                             [result |-> maintain_result(validation_results),
                              validation |-> validation_results,
                              error_count |-> fixed.error_count,
                              after_sync |-> (last.op = "sync_messages" /\ last.ok)])
    /\ UNCHANGED <<messages, bulk, cursor, sync>>

\* the address specification: the operations that create, name and remove
\* IndexedEmailAddress rows, with both indexing routines
AddressNext ==
    \/ \E k \in MsgKeys, uc \in BOOLEAN, fail \in BOOLEAN : IndexMessage(k, uc, fail)
    \/ \E k \in MsgKeys : IndexEmailAddresses(k)
    \/ \E k \in MsgKeys : DeleteMessage(k)
    \/ CleanupOrphans
    \/ UpdateAllCounts
    \/ \E acc \in AccountArgs, fails \in SUBSET MsgKeys : MaintainEmailIndex(acc, fails)

SpecAddress == IndexInit /\ [][AddressNext]_vars

(***************************************************************************)
(* cleanup_orphaned_emails statement by statement, with an                 *)
(* index_message_emails transaction of another process committing between  *)
(* its statements                                                          *)
(***************************************************************************)
\* orphaned_emails.count(): the first query
CleanupCount ==
    /\ Idle
    /\ nops' = nops + 1
    /\ LET orphaned_count == Cardinality(orphaned_emails(rels, addrs))
       IN  IF orphaned_count > 0
           THEN /\ bulk' = [BulkIdle EXCEPT !.pc = "collect",
                                            !.kind = "cleanup_orphaned_emails",
                                            !.total = orphaned_count]
                /\ UNCHANGED last
           ELSE /\ last' = Done("cleanup_orphaned_emails", NoAccount, <<>>, TRUE, 0)
                /\ UNCHANGED bulk
    /\ UNCHANGED <<messages, rels, addrs, cursor, sync>>

\* orphaned_emails.delete(), first half: QuerySet.delete evaluates the
\* queryset and collects the rows to delete by primary key
CleanupCollect ==
    /\ bulk.pc = "collect"
    /\ bulk' = [bulk EXCEPT !.pc = "delete",
                            !.selected = orphaned_emails(rels, addrs)]
    /\ UNCHANGED <<messages, rels, addrs, last, nops, cursor, sync>>

\* orphaned_emails.delete(), second half: the collected IndexedEmailAddress
\* rows are deleted by primary key, and with them (on_delete=CASCADE) the
\* MessageEmailAddress rows that point to them at that time
CleanupDelete ==
    /\ bulk.pc = "delete"
    /\ addrs' = [e \in DOMAIN addrs \ bulk.selected |-> addrs[e]]
    /\ rels' = DeleteRowsOfEmails(rels, bulk.selected)
    /\ last' = Done("cleanup_orphaned_emails", NoAccount, bulk.attempted, TRUE,
                    bulk.total)
    /\ bulk' = BulkIdle
    /\ UNCHANGED <<messages, nops, cursor, sync>>

\* an index_message_emails transaction of another process commits while
\* cleanup_orphaned_emails is between two of its statements
IndexDuringCleanup(k) ==
    /\ bulk.pc \in {"collect", "delete"}
    /\ bulk.attempted = <<>>
    /\ k \in DOMAIN messages
    /\ LET st == index_message_emails(messages, rels, addrs, k, TRUE)
       IN  /\ rels' = st.rels
           /\ addrs' = st.addrs
    /\ bulk' = [bulk EXCEPT !.attempted = <<k>>]
    /\ UNCHANGED <<messages, last, nops, cursor, sync>>

ConcurrentNext ==
    \/ \E k \in MsgKeys : IndexMessage(k, TRUE, FALSE)
    \/ \E k \in MsgKeys : DeleteMessage(k)
    \/ CleanupCount
    \/ CleanupCollect
    \/ \E k \in MsgKeys : IndexDuringCleanup(k)
    \/ CleanupDelete

SpecConcurrent == IndexInit /\ [][ConcurrentNext]_vars

(***************************************************************************)
(* MessageSyncService: the remote mailbox as the service sees it           *)
(***************************************************************************)
\* the account the service is bound to (the override, or the profile's address)
SyncAccount == "a1"

\* values of the profile's and the change feed's historyId
RemoteTokens == {"t1", "t2"}

\* the versions of a message the remote can hand out
Versions == 1 .. 3

\* messages.get(format="minimal") of a message in version v
message_meta(id, v) ==
    [historyId |-> CASE v = 1 -> "h1" [] v = 2 -> "h2" [] OTHER -> "h3",
     threadId |-> "t1",
     labelIds |-> CASE v = 1 -> {"UNREAD", "STARRED", "L1"}
                    [] v = 2 -> {"IMPORTANT", "L2"}
                    [] OTHER -> {},
     internalDate |-> IF v = 1 THEN 1000 ELSE 2000]

\* messages.get(format="raw") of a message in version v, base64-decoded
message_raw(id, v) == CASE v = 1 -> 1 [] v = 2 -> 2 [] OTHER -> 0

\* labels.list of the remote
RemoteLabels == <<[id |-> "L1", name |-> "Inbox"], [id |-> "L2", name |-> "Work"]>>

\* str.lower
Lower(str) ==
    CASE str = "Work" -> "work" [] str = "WORK" -> "work"
      [] str = "Inbox" -> "inbox" [] OTHER -> str

\* GoogleEmailService.find_label_by_name: the first label of that name,
\* compared case-insensitively, or None
find_label_by_name(label_name) ==
    LET hits == {i \in DOMAIN RemoteLabels :
                    Lower(RemoteLabels[i].name) = Lower(label_name)}
    IN  IF hits = {} THEN None ELSE Some(RemoteLabels[Min(hits)])

RECURSIVE resolve_names(_)
resolve_names(label_names) ==
    IF label_names = <<>> THEN <<>>
    ELSE LET label == find_label_by_name(Head(label_names))
         IN  (IF label # None THEN <<label[1].id>> ELSE <<>>)
                 \o resolve_names(Tail(label_names))

\* a resolution that ignores the names                      (faulty variant)
resolve_label_filters_ids_only(label_ids, label_names) == label_ids

\* _resolve_label_filters: the given ids, then the ids of the names found;
\* an empty result is None (the empty sequence here)
resolve_label_filters(label_ids, label_names) ==
    label_ids \o resolve_names(label_names)

\* a filter that lets every message pass                  (faulty variant)
message_matches_any_filter(message, label_ids) == TRUE

\* _message_matches_labels
message_matches_labels(message, label_ids) ==
    IF label_ids = <<>> THEN TRUE
    ELSE \E i \in DOMAIN label_ids : label_ids[i] \in message.labelIds

\* the label arguments a caller passes
LabelArgs ==
    {[label_ids |-> <<>>, label_names |-> <<>>],
     [label_ids |-> <<"L1">>, label_names |-> <<"work">>],
     [label_ids |-> <<>>, label_names |-> <<"nope", "WORK">>]}

\* max_results of sync_messages: one message, or the default
MaxResultsArgs == {1, 100}

\* what messages.list can answer before max_results cuts it
RemoteListings == {<<>>, <<1>>, <<2, 1>>}

HistoryRecord(added, deleted, labelsAdded, labelsRemoved) ==
    [messagesAdded |-> added, messagesDeleted |-> deleted,
     labelsAdded |-> labelsAdded, labelsRemoved |-> labelsRemoved]

\* what history.list can answer in its 'history' key
RemoteHistories ==
    {<<>>,
     <<HistoryRecord(<<[id |-> 1, labelIds |-> {"L1"}], [id |-> 2, labelIds |-> {}]>>,
                     <<>>, <<>>, <<>>)>>,
     <<HistoryRecord(<<>>, <<1>>, <<2>>, <<>>)>>,
     <<HistoryRecord(<<[id |-> 2, labelIds |-> {"L2"}]>>, <<>>, <<>>, <<1>>),
       HistoryRecord(<<>>, <<2>>, <<>>, <<>>)>>}

\* GoogleMailMessage.update_flags_from_labels: nothing changes when the
\* message has no labels
update_flags_from_labels(row) ==
    IF row.label_ids = {} THEN row
    ELSE [row EXCEPT !.is_read = "UNREAD" \notin row.label_ids,
                     !.is_starred = "STARRED" \in row.label_ids,
                     !.is_important = "IMPORTANT" \in row.label_ids]

\* a row as objects.create makes it before the defaults are applied;
\* copies is the number of rows of the table that carry this identity
NewMessageRow ==
    [raw |-> 0, internal_date |-> 0, history_id |-> "", thread_id |-> "",
     label_ids |-> {}, is_read |-> FALSE, is_starred |-> FALSE,
     is_important |-> FALSE, copies |-> 1]

\* a row inserted whether or not the identity is stored   (faulty variant)
message_create(msgs, k) ==
    IF k \in DOMAIN msgs
    THEN [msgs[k] EXCEPT !.copies = @ + 1]
    ELSE NewMessageRow

\* GoogleMailMessage.objects.get_or_create(message_id, account_email, defaults)
message_get_or_create(msgs, k) ==
    IF k \in DOMAIN msgs THEN msgs[k] ELSE NewMessageRow

\* _download_and_store_message once both downloads succeeded: get_or_create
\* with the downloaded fields, the same fields overwritten on an existing row,
\* then the flags
download_and_store_message(msgs, k, v) ==
    LET meta == message_meta(k[2], v)
        old == message_get_or_create(msgs, k)
        row == [old EXCEPT !.raw = message_raw(k[2], v),
                           !.internal_date = meta.internalDate,
                           !.history_id = meta.historyId,
                           !.thread_id = meta.threadId,
                           !.label_ids = meta.labelIds]
    IN  [j \in DOMAIN msgs \cup {k} |->
            IF j = k THEN update_flags_from_labels(row) ELSE msgs[j]]

\* a label refresh that stores the whole message again    (faulty variant)
update_message_labels_by_download(msgs, k, v) ==
    download_and_store_message(msgs, k, v)

\* _update_message_labels on a stored message once the download succeeded
update_message_labels(msgs, k, v) ==
    LET meta == message_meta(k[2], v)
    IN  [msgs EXCEPT ![k] = update_flags_from_labels(
            [@ EXCEPT !.label_ids = meta.labelIds, !.history_id = meta.historyId])]

\* _get_last_history_id: the SyncState row of the account; without one, the
\* history_id of a most recent message of the account (the set of candidates)
get_last_history_id(cur, msgs, acc) ==
    IF acc \in DOMAIN cur THEN {Some(cur[acc])}
    ELSE LET mine == {k \in DOMAIN msgs : k[1] = acc}
             newest == {k \in mine : \A j \in mine :
                            msgs[j].internal_date <= msgs[k].internal_date}
         IN  IF mine = {} THEN {None}
             ELSE {Some(msgs[k].history_id) : k \in newest}

\* _store_last_history_id without a stored cursor written (faulty variant)
store_last_history_id_skipped(cur, acc, history_id) == cur

\* _store_last_history_id: update_or_create of the account's SyncState row
store_last_history_id(cur, acc, history_id) ==
    [a \in DOMAIN cur \cup {acc} |-> IF a = acc THEN history_id ELSE cur[a]]

\* sync_messages chooses incremental whenever a history id is known (faulty variant)
chooses_full_sync_ignoring_force(force_full_sync, last_history_id) ==
    last_history_id = None

\* sync_messages: "if force_full_sync or not last_history_id"
chooses_full_sync(force_full_sync, last_history_id) ==
    force_full_sync \/ last_history_id = None

\* the items of the history records in the order _process_history_record takes
\* them: per record the added messages, the deleted ones, the label changes
RECURSIVE history_items(_)
history_items(records) ==
    IF records = <<>> THEN <<>>
    ELSE LET r == Head(records)
             tag(kind, s) == [i \in DOMAIN s |->
                [kind |-> kind,
                 id |-> IF kind = "added" THEN s[i].id ELSE s[i],
                 labelIds |-> IF kind = "added" THEN s[i].labelIds ELSE {}]]
         IN  tag("added", r.messagesAdded) \o tag("deleted", r.messagesDeleted)
                \o tag("label", r.labelsAdded \o r.labelsRemoved)
                \o history_items(Tail(records))

(***************************************************************************)
(* MessageSyncService.sync_messages, one step per remote request           *)
(***************************************************************************)
\* what a finished sync_messages call leaves behind: the report it returned
\* or the exception it raised, and the facts of the call
SyncDone(ok, report, error, s) ==
    Done("sync_messages", s.acc, <<>>, ok,
         [report |-> report, error |-> error,
          call |-> [s EXCEPT !.pc = "idle", !.stats = <<>>, !.todo = <<>>]])

\* sync_messages after a failed incremental attempt retries it (faulty variant)
fallback_retries_incremental(s) == [s EXCEPT !.pc = "history"]

\* sync_messages: "if incremental_result is None: return self._full_sync(...)"
fallback_to_full_sync(s) == [s EXCEPT !.pc = "list", !.full_syncs = @ + 1]

\* a per-item exception handler that gives up on the rest   (faulty variant)
record_item_error_aborting(s, what, id) ==
    [s EXCEPT !.stats.errors = Append(@, <<what, id>>), !.todo = <<>>]

\* the per-item exception handlers: stats['errors'].append(...)
record_item_error(s, what, id) ==
    [s EXCEPT !.stats.errors = Append(@, <<what, id>>)]

\* on_delete=CASCADE: the through rows of messages no longer stored go
cascade(rs, msgs) == RestrictBag(rs, {r \in DOMAIN rs : r.message \in DOMAIN msgs})

\* a deletion by message_id alone                           (faulty variant)
delete_message_any_account(msgs, k) ==
    [j \in {i \in DOMAIN msgs : i[2] # k[2]} |-> msgs[j]]

\* GoogleMailMessage.objects.filter(message_id=..., account_email=...).delete()
delete_message(msgs, k) == [j \in DOMAIN msgs \ {k} |-> msgs[j]]

\* a cursor stored only by a sync without item errors         (faulty variant)
cursor_after_clean_sync(cur, acc, stats) ==
    IF stats.errors = <<>>
    THEN store_last_history_id(cur, acc, stats.history_id[1]) ELSE cur

\* "if current_history_id: self._store_last_history_id(current_history_id)"
cursor_after_sync(cur, acc, stats) ==
    IF stats.history_id # None
    THEN store_last_history_id(cur, acc, stats.history_id[1]) ELSE cur

\* a full sync that forgets the stored cursor when it starts (faulty variant)
cursor_reset_at_full_sync_start(cur, acc) ==
    [a \in DOMAIN cur \ {acc} |-> cur[a]]

\* sync_messages entering _full_sync: SyncState is not touched
cursor_at_full_sync_start(cur, acc) == cur

\* an identity check made after the label lookups              (faulty variant)
identity_failure_after_labels(largs) ==
    [SyncIdle EXCEPT !.label_lookups = Len(largs.label_names)]

\* sync_messages raising ValueError: the first statement, nothing was done
identity_failure_call(largs) == SyncIdle

\* sync_messages up to its choice between _full_sync and _incremental_sync:
\* the account's identity, the label filter, the last history id
SyncMessages(ident, force_full_sync, max_results, largs, labels_ok) ==
    /\ Idle
    /\ nops' = nops + 1
    /\ LET acc == SyncAccount
           started == [SyncIdle EXCEPT
                !.acc = acc, !.force = force_full_sync,
                !.max_results = max_results,
                !.label_filter = resolve_label_filters(largs.label_ids,
                                                       largs.label_names),
                !.largs = largs,
                !.had_cursor = acc \in DOMAIN cursor,
                !.cursor_before = IF acc \in DOMAIN cursor
                                  THEN Some(cursor[acc]) ELSE None,
                !.label_lookups = IF labels_ok THEN Len(largs.label_names)
                                  ELSE Min({1, Len(largs.label_names)}),
                !.local_before = Cardinality({k \in DOMAIN messages : k[1] = acc})]
       IN  IF ident \in {"profile_fails", "profile_no_address"}
           THEN /\ last' = SyncDone(FALSE, <<>>, "ValueError",
                                    identity_failure_call(largs))
                /\ UNCHANGED <<sync, cursor>>
           ELSE IF largs.label_names # <<>> /\ ~labels_ok
           THEN /\ last' = SyncDone(FALSE, <<>>, "list_labels", started)
                /\ UNCHANGED <<sync, cursor>>
           ELSE \E h \in get_last_history_id(cursor, messages, acc) :
                /\ IF chooses_full_sync(force_full_sync, h)
                   THEN /\ sync' = [started EXCEPT !.pc = "list", !.start = h,
                                                   !.full_syncs = 1]
                        /\ cursor' = cursor_at_full_sync_start(cursor, acc)
                   ELSE /\ sync' = [started EXCEPT !.pc = "history", !.start = h]
                        /\ UNCHANGED cursor
                /\ last' = Done("sync_messages_started", acc, <<>>, TRUE, <<>>)
    /\ UNCHANGED <<messages, rels, addrs, bulk>>

\* _incremental_sync: the history.list request.  A 404 makes list_history
\* return None; any other exception is caught by _incremental_sync itself;
\* both make it return None
ListHistory(resp, records, token) ==
    /\ sync.pc = "history"
    /\ LET s == [sync EXCEPT !.history_calls = @ + 1]
           stats == [sync_type |-> "incremental",
                     label_filter |-> s.label_filter,
                     history_records |-> Len(records),
                     messages_added |-> 0, messages_deleted |-> 0,
                     labels_modified |-> 0, errors |-> <<>>,
                     history_id |-> Some(token)]
       IN  sync' = IF resp = "ok"
                   THEN [s EXCEPT !.pc = "records", !.stats = stats,
                                  !.todo = history_items(records)]
                   ELSE fallback_to_full_sync(
                            [s EXCEPT !.expired = (resp = "404"),
                                      !.feed_error = (resp = "error")])
    /\ UNCHANGED <<messages, rels, addrs, bulk, last, nops, cursor>>

\* _process_history_record, one added message, deleted message or label
\* change at a time; v = 0 is a failed download
ProcessHistoryItem(v) ==
    /\ sync.pc = "records"
    /\ sync.todo # <<>>
    /\ LET item == Head(sync.todo)
           k == <<sync.acc, item.id>>
           rest == [sync EXCEPT !.todo = Tail(@), !.items_done = @ + 1]
           raw(s) == [s EXCEPT !.raw_requests = @ + 1]
           failed(s, what) ==
               record_item_error([s EXCEPT !.item_failures = @ + 1], what, item.id)
       IN  CASE item.kind = "added" ->
                  /\ IF ~message_matches_labels(item, sync.label_filter)
                     THEN sync' = rest /\ UNCHANGED messages
                     ELSE IF v = 0
                     THEN sync' = failed(raw(rest), "add") /\ UNCHANGED messages
                     ELSE /\ messages' = download_and_store_message(messages, k, v)
                          /\ sync' = [raw(rest) EXCEPT !.stats.messages_added = @ + 1]
                  /\ UNCHANGED rels
             [] item.kind = "deleted" ->
                  IF v = 0
                  THEN sync' = failed(rest, "delete") /\ UNCHANGED <<messages, rels>>
                  ELSE /\ messages' = delete_message(messages, k)
                       /\ rels' = cascade(rels, messages')
                       /\ sync' = [rest EXCEPT
                            !.stats.messages_deleted = @ + 1,
                            !.removed = @ \cup (DOMAIN messages \ DOMAIN messages')]
             [] OTHER ->
                  LET counted == [rest EXCEPT !.stats.labels_modified = @ + 1]
                      fetched == IF k \in DOMAIN messages THEN counted
                                 ELSE raw(counted)
                  IN  /\ IF v = 0
                         THEN sync' = failed(fetched, "labels") /\ UNCHANGED messages
                         ELSE /\ sync' = fetched
                              /\ messages' =
                                    IF k \in DOMAIN messages
                                    THEN update_message_labels(messages, k, v)
                                    ELSE download_and_store_message(messages, k, v)
                      /\ UNCHANGED rels
    /\ UNCHANGED <<addrs, bulk, last, nops, cursor>>

\* _incremental_sync after the last record: the cursor moves to the feed's
\* historyId and the report is returned
IncrementalFinish ==
    /\ sync.pc = "records"
    /\ sync.todo = <<>>
    /\ cursor' = cursor_after_sync(cursor, sync.acc, sync.stats)
    /\ last' = SyncDone(TRUE, sync.stats, "", sync)
    /\ sync' = SyncIdle
    /\ UNCHANGED <<messages, rels, addrs, bulk, nops>>

\* GoogleEmailService.list_messages: at most max_results of what the remote lists
list_messages(listing, max_results) ==
    SubSeq(listing, 1, Min({Len(listing), max_results}))

\* _full_sync: the messages.list request; an exception of it leaves
\* sync_messages
ListMessages(ok, listing) ==
    /\ sync.pc = "list"
    /\ IF ok
       THEN LET found == list_messages(listing, sync.max_results)
                stats == [sync_type |-> "full",
                          label_filter |-> sync.label_filter,
                          total_found |-> Len(found),
                          new_messages |-> 0, updated_messages |-> 0,
                          errors |-> <<>>, history_id |-> None]
            IN  /\ sync' = [sync EXCEPT !.pc = "batch", !.stats = stats,
                                        !.todo = found, !.list_calls = @ + 1,
                                        !.remote_count = Len(listing)]
                /\ UNCHANGED last
       ELSE /\ last' = SyncDone(FALSE, <<>>, "list_messages",
                                [sync EXCEPT !.list_calls = @ + 1])
            /\ sync' = SyncIdle
    /\ UNCHANGED <<messages, rels, addrs, bulk, nops, cursor>>

\* _process_message_batch overwriting what is stored   (faulty variant)
force_update_always == TRUE

\* _process_message_batch as _full_sync calls it
force_update == FALSE

\* _process_message_batch, one listed message at a time; v = 0 is a failed
\* download
ProcessMessage(v) ==
    /\ sync.pc = "batch"
    /\ sync.todo # <<>>
    /\ LET message_id == Head(sync.todo)
           k == <<sync.acc, message_id>>
           existing_message == IF ~force_update /\ k \in DOMAIN messages
                               THEN Some(k) ELSE None
           rest == [sync EXCEPT !.todo = Tail(@), !.items_done = @ + 1,
                                !.raw_requests = @ + 1]
       IN  IF existing_message = None \/ force_update
           THEN IF v = 0
                THEN /\ sync' = record_item_error(
                                    [rest EXCEPT !.item_failures = @ + 1],
                                    "process", message_id)
                     /\ UNCHANGED messages
                ELSE /\ messages' = download_and_store_message(messages, k, v)
                     /\ sync' = IF existing_message = None
                                THEN [rest EXCEPT !.stats.new_messages = @ + 1]
                                ELSE [rest EXCEPT !.stats.updated_messages = @ + 1]
           ELSE /\ sync' = [rest EXCEPT !.raw_requests = sync.raw_requests]
                /\ UNCHANGED messages
    /\ UNCHANGED <<rels, addrs, bulk, last, nops, cursor>>

\* _full_sync after the last batch: the profile's historyId becomes the
\* cursor; an exception of get_profile leaves sync_messages
FullFinish(ok, token) ==
    /\ sync.pc = "batch"
    /\ sync.todo = <<>>
    /\ IF ok
       THEN LET stats == [sync.stats EXCEPT !.history_id = Some(token)]
            IN  /\ cursor' = cursor_after_sync(cursor, sync.acc, stats)
                /\ last' = SyncDone(TRUE, stats, "", sync)
       ELSE /\ last' = SyncDone(FALSE, <<>>, "get_profile", sync)
            /\ UNCHANGED cursor
    /\ sync' = SyncIdle
    /\ UNCHANGED <<messages, rels, addrs, bulk, nops>>

\* force_resync_message: _download_and_store_message of one message; a
\* failing download raises
ForceResyncMessage(id, v) ==
    /\ Idle
    /\ nops' = nops + 1
    /\ LET k == <<SyncAccount, id>>
       IN  /\ messages' = IF v = 0 THEN messages
                          ELSE download_and_store_message(messages, k, v)
           /\ last' = Done("force_resync_message", SyncAccount, k, v # 0,
                           [stored_before |-> k \in DOMAIN messages])
    /\ UNCHANGED <<rels, addrs, bulk, cursor, sync>>

(***************************************************************************)
(* The sync specification                                                  *)
(***************************************************************************)
\* the stores the sync specification starts from: nothing, or one message of
\* another account stored by an earlier sync of that account
SyncStores == {<<>>, download_and_store_message(<<>>, <<"a2", 1>>, 2)}

SyncInit ==
    /\ messages \in SyncStores
    /\ rels = EmptyBag
    /\ addrs = <<>>
    /\ bulk = BulkIdle
    /\ last = Done("init", NoAccount, <<>>, TRUE, <<>>)
    /\ nops = 0
    /\ cursor = <<>>
    /\ sync = SyncIdle

\* what history.list can answer: the changes and the feed's historyId, a 404,
\* or another error
HistoryResponses ==
    {[status |-> "ok", history |-> r, historyId |-> t] :
        r \in RemoteHistories, t \in RemoteTokens}
    \cup {[status |-> st, history |-> <<>>, historyId |-> ""] : st \in {"404", "error"}}

\* what messages.list can answer: a listing, or an error
ListResponses ==
    {[ok |-> TRUE, messages |-> l] : l \in RemoteListings}
    \cup {[ok |-> FALSE, messages |-> <<>>]}

\* what getProfile can answer at the end of a full sync: the current
\* historyId, or an error
ProfileResponses ==
    {[ok |-> TRUE, historyId |-> t] : t \in RemoteTokens}
    \cup {[ok |-> FALSE, historyId |-> ""]}

\* how the account's identity is established: the override, the profile's
\* address, a failing profile request, a profile without an address
Identities == {"override", "profile", "profile_fails", "profile_no_address"}

\* the sync_messages calls tried; label lookups can fail only when there are
\* names to look up
SyncCalls ==
    {c \in [ident : Identities, force_full_sync : BOOLEAN,
            max_results : MaxResultsArgs, largs : LabelArgs, labels_ok : BOOLEAN] :
        /\ c.largs.label_names = <<>> => c.labels_ok
        /\ c.ident \in {"profile_fails", "profile_no_address"} =>
              (c.labels_ok /\ ~c.force_full_sync /\ c.max_results = 1)}

SyncNext ==
    \/ \E c \in SyncCalls :
          SyncMessages(c.ident, c.force_full_sync, c.max_results, c.largs, c.labels_ok)
    \/ \E r \in HistoryResponses : ListHistory(r.status, r.history, r.historyId)
    \/ \E v \in {0} \cup Versions : ProcessHistoryItem(v)
    \/ IncrementalFinish
    \/ \E r \in ListResponses : ListMessages(r.ok, r.messages)
    \/ \E v \in {0} \cup Versions : ProcessMessage(v)
    \/ \E r \in ProfileResponses : FullFinish(r.ok, r.historyId)
    \/ \E id \in MsgIds : IndexMessage(<<SyncAccount, id>>, TRUE, FALSE)
    \/ \E id \in MsgIds, v \in {0} \cup Versions : ForceResyncMessage(id, v)

SpecSync == SyncInit /\ [][SyncNext]_vars

\* the batched specification: the operations that work through batches or
\* change records and end with a final write, sync_messages of the account
\* without label filter and bulk_index_messages
BatchedNext ==
    \/ \E force \in BOOLEAN, mr \in MaxResultsArgs :
          SyncMessages("override", force, mr,
                       [label_ids |-> <<>>, label_names |-> <<>>], TRUE)
    \/ \E r \in HistoryResponses : ListHistory(r.status, r.history, r.historyId)
    \/ \E v \in {0, 1} : ProcessHistoryItem(v)
    \/ IncrementalFinish
    \/ \E r \in ListResponses : ListMessages(r.ok, r.messages)
    \/ \E v \in {0, 1} : ProcessMessage(v)
    \/ \E r \in ProfileResponses : FullFinish(r.ok, r.historyId)
    \/ \E bs \in 1 .. MaxBatch : BulkIndexMessages(BulkAccount, bs)
    \/ BulkBatch({})
    \/ BulkFinish

SpecBatched == IndexInit /\ [][BatchedNext]_vars

(***************************************************************************)
(* index_message_emails run by two workers at once.  Each call is one      *)
(* database transaction under READ COMMITTED: a statement reads what is    *)
(* committed plus the transaction's own writes; an INSERT of an email      *)
(* another open transaction inserted, and an UPDATE of a row another open  *)
(* transaction wrote, wait for that transaction to end.                    *)
(***************************************************************************)
NewTxn(k) == [msg |-> k, pc |-> "begin", rows |-> EmptyBag, written |-> <<>>,
              objs |-> <<>>]

\* the MessageEmailAddress table as transaction t reads it: its delete of the
\* message's rows and its inserts on top of what is committed
txn_visible_rels(rs, t) == DeleteRowsOfMessage(rs, t.msg) (+) t.rows

\* the IndexedEmailAddress table as transaction t reads it
txn_visible_addrs(as, t) ==
    [e \in DOMAIN as \cup DOMAIN t.written |->
        IF e \in DOMAIN t.written THEN t.written[e] ELSE as[e]]

\* the address rows (and unique index entries) an open transaction holds
txn_locked(t) == IF t.pc \in {"written", "counted"} THEN DOMAIN t.written ELSE {}

\* email_addr.save() of _update_message_counts_for_message: every column of
\* the row is written from the object in memory
save_all_columns(row, obj) == obj

\* two workers call index_message_emails for a message of each account
IndexConcurrently(k1, k2) ==
    /\ Idle
    /\ nops' = nops + 1
    /\ k1 \in DOMAIN messages /\ k2 \in DOMAIN messages
    /\ k1[1] # k2[1]
    /\ bulk' = [BulkIdle EXCEPT !.pc = "transactions",
                                !.kind = "index_message_emails",
                                !.txns = <<NewTxn(k1), NewTxn(k2)>>]
    /\ last' = Done("index_concurrently_started", NoAccount, <<k1, k2>>, TRUE,
                    [before |-> [rels |-> rels, addrs |-> addrs]])
    /\ UNCHANGED <<messages, rels, addrs, cursor, sync>>

\* lines 30-56 of worker i: the old relationships are deleted, the addresses
\* got or created and named, the relationships created; nothing is committed
TxnWrite(i) ==
    /\ bulk.pc = "transactions"
    /\ bulk.txns[i].pc = "begin"
    /\ \E st \in {index_message_emails(messages, rels, addrs, bulk.txns[i].msg, FALSE)} :
         \E written \in {[e \in {a \in DOMAIN st.addrs :
                                    a \notin DOMAIN addrs \/ st.addrs[a] # addrs[a]}
                              |-> st.addrs[e]]} :
           /\ DOMAIN written \cap txn_locked(bulk.txns[3 - i]) = {}
           /\ bulk' = [bulk EXCEPT
                  !.txns[i].pc = "written",
                  !.txns[i].rows =
                      RestrictBag(st.rels, {r \in DOMAIN st.rels :
                                               r.message = bulk.txns[i].msg}),
                  !.txns[i].written = written]
    /\ UNCHANGED <<messages, rels, addrs, last, nops, cursor, sync>>

\* lines 142-143 of worker i: message.email_addresses.all() is loaded and
\* email_addr.messages.count() evaluated for each of them
TxnReadCounts(i) ==
    /\ bulk.pc = "transactions"
    /\ bulk.txns[i].pc = "written"
    /\ \E t \in {bulk.txns[i]} :
         bulk' = [bulk EXCEPT
             !.txns[i].pc = "counted",
             !.txns[i].objs =
                 [e \in {r.email_address : r \in DOMAIN t.rows} |->
                     [txn_visible_addrs(addrs, t)[e] EXCEPT
                         !.message_count =
                             messages_count(txn_visible_rels(rels, t), e)]]]
    /\ UNCHANGED <<messages, rels, addrs, last, nops, cursor, sync>>

\* line 144 of worker i and the end of its transaction: the objects are
\* saved and everything is committed
TxnCommit(i) ==
    /\ bulk.pc = "transactions"
    /\ bulk.txns[i].pc = "counted"
    /\ \E t \in {bulk.txns[i]} :
         /\ DOMAIN t.objs \cap txn_locked(bulk.txns[3 - i]) = {}
         /\ rels' = txn_visible_rels(rels, t)
         /\ addrs' = [e \in DOMAIN txn_visible_addrs(addrs, t) |->
                         IF e \in DOMAIN t.objs
                         THEN save_all_columns(txn_visible_addrs(addrs, t)[e], t.objs[e])
                         ELSE txn_visible_addrs(addrs, t)[e]]
         /\ IF bulk.txns[3 - i].pc = "committed"
            THEN /\ bulk' = BulkIdle
                 /\ last' = Done("index_concurrently", NoAccount, last.msg, TRUE,
                                 [before |-> last.res.before])
            ELSE /\ bulk' = [bulk EXCEPT !.txns[i].pc = "committed"]
                 /\ UNCHANGED last
    /\ UNCHANGED <<messages, nops, cursor, sync>>

ParallelNext ==
    \/ \E k \in MsgKeys : IndexMessage(k, TRUE, FALSE)
    \/ \E k1, k2 \in MsgKeys : IndexConcurrently(k1, k2)
    \/ \E i \in 1 .. 2 : TxnWrite(i)
    \/ \E i \in 1 .. 2 : TxnReadCounts(i)
    \/ \E i \in 1 .. 2 : TxnCommit(i)

SpecParallel == IndexInit /\ [][ParallelNext]_vars

\* the lifecycle specification: sync_configuration over stored messages that
\* may be indexed: the sync_mailbox of a source without labels, step by
\* step, and the maintain_email_index() that follows; with it the operations
\* that index messages and those that recount or remove addresses
LifecycleNext ==
    \/ \E id \in MsgIds : IndexMessage(<<SyncAccount, id>>, TRUE, FALSE)
    \/ SyncMessages("override", FALSE, 100,
                    [label_ids |-> <<>>, label_names |-> <<>>], TRUE)
    \/ \E r \in HistoryResponses : ListHistory(r.status, r.history, r.historyId)
    \/ \E v \in 0 .. 2 : ProcessHistoryItem(v)
    \/ IncrementalFinish
    \/ \E r \in ListResponses : ListMessages(r.ok, r.messages)
    \/ \E v \in 0 .. 2 : ProcessMessage(v)
    \/ \E r \in ProfileResponses : FullFinish(r.ok, r.historyId)
    \/ MaintainEmailIndex(NoAccount, {})
    \/ \E bs \in 1 .. MaxBatch : BulkIndexMessages(BulkAccount, bs)
    \/ BulkBatch({})
    \/ BulkFinish
    \/ UpdateAllCounts
    \/ CleanupOrphans
    \/ MaintenanceCleanup
    \/ ClearIndex

SpecLifecycle == IndexInit /\ [][LifecycleNext]_vars

(***************************************************************************)
(* Properties                                                              *)
(***************************************************************************)
Triples(rs) == {<<r.message, r.email_address, r.field>> : r \in DOMAIN rs}

NoDuplicateTriples(rs) ==
    \A r \in DOMAIN rs :
        /\ rs[r] = 1
        /\ \A q \in DOMAIN rs :
               (q.message = r.message /\ q.email_address = r.email_address
                    /\ q.field = r.field) => q = r

\* op is the operation that has just returned
After(op) == last.op = op /\ bulk.pc = "idle" /\ sync.pc = "idle"

\* the step completes a call of op
Completes(op) ==
    /\ last'.op = op
    /\ \/ nops' # nops /\ bulk'.pc = "idle"
       \/ bulk.pc = "finish"

\* C1: index_message_emails is idempotent: a second successful call right after
\* a successful call on the same, unchanged message leaves the same
\* (message, address, role) relationships, and no triple is ever stored twice.
C1_IndexIdempotent ==
    [][ /\ NoDuplicateTriples(rels')
        /\ (/\ After("index") /\ last.ok
            /\ Completes("index") /\ last'.ok /\ last'.msg = last.msg)
           => Triples(rels') = Triples(rels) ]_vars

C1_Witness ==
    /\ After("index") /\ last.ok /\ last.res.repeat
    /\ last.msg \in DOMAIN messages
    /\ messages[last.msg].raw = 2
    /\ Cardinality(RowsOfMessage(rels, last.msg)) = 3

\* C2: after any update_all_message_counts every IndexedAddress, also one with
\* no relationship, has message_count equal to its number of relationships.
C2_CountsAfterRecompute ==
    After("update_all_message_counts") =>
        \A e \in DOMAIN addrs : addrs[e].message_count = messages_count(rels, e)

\* C3: a message with to = [A, B] and cc = [B], indexed once, has exactly the
\* relationships (msg,A,to), (msg,B,to), (msg,B,cc), and B's message_count is the
\* number of messages B appears in (1 when this is B's only message).
C3_OneMessageTwoRoles ==
    (/\ After("index") /\ last.ok /\ last.res.update_counts
     /\ last.msg \in DOMAIN messages
     /\ messages[last.msg].raw = 1)
    => /\ {<<r.email_address, r.field>> : r \in RowsOfMessage(rels, last.msg)}
            = {<<"a@x", "to">>, <<"b@x", "to">>, <<"b@x", "cc">>}
       /\ addrs["b@x"].message_count
            = Cardinality({r.message : r \in RowsOfEmail(rels, "b@x")})

\* number of 'from' rows of message k
FromRows(rs, k) ==
    BagCardinality(RestrictBag(rs, {r \in RowsOfMessage(rs, k) : r.field = "from"}))

\* C4: after a successful index_message_emails(m), m has exactly one 'from'
\* relationship if its sender address is non-empty, and none otherwise.
C4_FromRelationship ==
    (After("index") /\ last.ok /\ last.msg \in DOMAIN messages)
    => FromRows(rels, last.msg)
         = (IF header_from(messages[last.msg].raw).email # "" THEN 1 ELSE 0)

C4_Witness ==
    /\ After("index") /\ last.ok
    /\ last.msg \in DOMAIN messages
    /\ header_from(messages[last.msg].raw).email # ""
    /\ FromRows(rels, last.msg) = 1

C4_WitnessNoSender ==
    /\ After("index") /\ last.ok
    /\ last.msg \in DOMAIN messages
    /\ messages[last.msg].raw = 1
    /\ RowsOfMessage(rels, last.msg) # {}
    /\ FromRows(rels, last.msg) = 0

\* the from/to/cc fields of the raw content hold at least one address
HasAddress(raw) ==
    \E i \in DOMAIN email_field_mapping(raw) :
        Normalize(email_field_mapping(raw)[i].addr.email) # ""

\* C5: rebuild_index() followed by validate_index() reports
\* total_issues == 0, for any stored messages and any prior index state.
C5_RebuildThenValidate ==
    [][ (/\ After("rebuild_index") /\ last.acc = NoAccount
         /\ Completes("validate_index") /\ last'.acc = NoAccount)
        => last'.res.report.total_issues = 0 ]_vars

\* what does hold of C5: when every stored message in scope holds at least one
\* address and rebuild_index reported no error, validate_index for the same
\* scope right after rebuild_index reports total_issues == 0.
C5_RebuildThenValidateAmended ==
    [][ (/\ After("rebuild_index") /\ last.res.error_count = 0
         /\ Completes("validate_index") /\ last'.acc = last.acc
         /\ \A k \in Scope(messages, last.acc) : HasAddress(messages[k].raw))
        => last'.res.report.total_issues = 0 ]_vars

C5_Witness ==
    /\ After("validate_index") /\ last.res.after_rebuild
    /\ last.acc = NoAccount
    /\ Cardinality(DOMAIN messages) >= 2
    /\ \A k \in DOMAIN messages : HasAddress(messages[k].raw)
    /\ \E k \in DOMAIN messages : messages[k].raw = 1
    /\ last.res.report.total_issues = 0

\* the messages missing from the index when the completing call started
MissingAtStart ==
    IF bulk.pc = "finish" THEN bulk.missing
    ELSE MissingMessages(messages, rels, last'.acc)

\* C6: when no message in scope is missing from the index, fix_missing_entries
\* returns {processed_count: 0, error_count: 0, missing_count: 0} and writes
\* nothing to messages, relationships or IndexedAddress rows.
C6_FixMissingNothingToDo ==
    [][ (Completes("fix_missing_entries") /\ MissingAtStart = {})
        => /\ last'.res.processed_count = 0
           /\ last'.res.error_count = 0
           /\ last'.res.missing_count = 0
           /\ messages' = messages /\ rels' = rels /\ addrs' = addrs ]_vars

C6_Witness ==
    /\ After("fix_missing_entries")
    /\ last.res.missing_count = 0 /\ last.res.processed_count = 0
    /\ last.res.error_count = 0
    /\ Scope(messages, last.acc) # {}
    /\ \E e \in DOMAIN addrs :
           messages_count(rels, e) > 0 /\ addrs[e].first_seen = None

\* number of times k occurs in the sequence s
Occurrences(s, k) == Cardinality({i \in DOMAIN s : s[i] = k})

\* C7: for any batch size, fix_missing_entries runs indexing on exactly the
\* messages that had no relationship when it started, each exactly once, and
\* processed_count + error_count == missing_count.
C7_FixMissingExactlyTheMissing ==
    After("fix_missing_entries") =>
        /\ \A k \in last.res.missing : Occurrences(last.res.attempted, k) = 1
        /\ SeqToSet(last.res.attempted) \subseteq last.res.missing
        /\ last.res.processed_count + last.res.error_count = last.res.missing_count

(***************************************************************************)
(* Properties of the sync coordinator (SpecSync)                           *)
(***************************************************************************)
\* a sync_messages call has returned its report
Reported == After("sync_messages") /\ last.ok

\* the call met no stored cursor, the listing fitted into max_results and no
\* download failed
FirstSyncCase ==
    /\ Reported
    /\ ~last.res.call.had_cursor
    /\ last.res.call.max_results >= last.res.call.remote_count
    /\ last.res.report.errors = <<>>

FirstSyncOutcome ==
    /\ last.res.report.sync_type = "full"
    /\ last.res.report.new_messages = last.res.call.remote_count
    /\ last.res.report.updated_messages = 0
    /\ last.acc \in DOMAIN cursor
    /\ last.res.report.history_id = Some(cursor[last.acc])

\* C8 as stated: a sync of an account without a stored cursor, with n remote
\* messages, max_results >= n and no download failure, is a full sync whose
\* report has new_messages = n and updated_messages = 0 and which stores the
\* remote's current history id as the cursor
C8_FirstSyncIsFull == FirstSyncCase => FirstSyncOutcome

\* C8 amended: the same, for an account that has no stored cursor and no
\* locally stored message either
C8_FirstSyncIsFullAmended ==
    (FirstSyncCase /\ last.res.call.local_before = 0) => FirstSyncOutcome

\* a first sync of two remote messages has returned
C8_Witness ==
    /\ FirstSyncCase
    /\ last.res.call.local_before = 0
    /\ ~last.res.call.force
    /\ last.res.report.new_messages = 2
    /\ Cardinality(DOMAIN messages) = 2

\* the change feed is asked only in a call without force_full_sync
FeedOnlyUnforced(call) == call.history_calls > 0 => ~call.force

C9_WitnessForced ==
    /\ Reported
    /\ last.res.call.force
    /\ last.res.call.had_cursor
    /\ last.res.report.sync_type = "full"

\* C10: when the change feed answers that the cursor is expired, the same call
\* runs one full sync and the report it returns is that full sync's; no call
\* asks the change feed twice or runs two full syncs
C10_ExpiredCursorFallsBackOnce ==
    /\ sync.history_calls <= 1
    /\ sync.full_syncs <= 1
    /\ (sync.pc # "idle" /\ sync.expired) =>
          (sync.pc \in {"list", "batch"} /\ sync.full_syncs = 1)
    /\ (After("sync_messages") /\ last.res.call.expired) =>
          /\ last.res.call.history_calls = 1
          /\ last.res.call.full_syncs = 1
          /\ last.ok => last.res.report.sync_type = "full"

\* a call whose cursor was expired has returned a full report
C10_Witness ==
    /\ Reported
    /\ last.res.call.expired
    /\ last.res.call.full_syncs = 1
    /\ last.res.report.sync_type = "full"
    /\ last.res.report.new_messages > 0

\* C11: only the 'cursor expired' answer triggers the full-sync fallback: when
\* the change-feed request fails for any other reason, sync_messages reports an
\* error and runs no full sync
C11_OnlyExpiredFallsBack ==
    /\ sync.feed_error => sync.full_syncs = 0
    /\ (After("sync_messages") /\ last.res.call.feed_error) =>
          (~last.ok /\ last.res.call.full_syncs = 0)

\* the step handles the next listed message of a full sync
FullItemStep == sync.pc = "batch" /\ sync.todo # <<>> /\ sync' # sync

\* the stored content and metadata of the row are the remote's, in one of its
\* versions
HoldsRemoteValues(row, id) ==
    \E v \in Versions :
        /\ row.raw = message_raw(id, v)
        /\ row.internal_date = message_meta(id, v).internalDate
        /\ row.history_id = message_meta(id, v).historyId
        /\ row.thread_id = message_meta(id, v).threadId
        /\ row.label_ids = message_meta(id, v).labelIds

\* the download of the listed message failed: one more error, nothing stored
ListedItemFailed ==
    /\ Len(sync'.stats.errors) = Len(sync.stats.errors) + 1
    /\ messages' = messages
    /\ sync'.stats.new_messages = sync.stats.new_messages
    /\ sync'.stats.updated_messages = sync.stats.updated_messages

\* the listed message, absent before, is stored with the remote's values and
\* counted as new
ListedItemInserted(k) ==
    /\ k \notin DOMAIN messages
    /\ sync'.raw_requests = sync.raw_requests + 1
    /\ DOMAIN messages' = DOMAIN messages \cup {k}
    /\ HoldsRemoteValues(messages'[k], k[2])
    /\ \A j \in DOMAIN messages : messages'[j] = messages[j]
    /\ sync'.stats.new_messages = sync.stats.new_messages + 1
    /\ sync'.stats.updated_messages = sync.stats.updated_messages
    /\ sync'.stats.errors = sync.stats.errors

ItemStep == sync.pc \in {"records", "batch"} /\ sync.todo # <<>> /\ sync' # sync

\* C13: a failure while downloading, deleting or label-refreshing one message
\* adds one entry to the report's errors and the sync goes on with the next
\* item: no later item is dropped, and the call ends only after the last item,
\* with a report unless a request that is not an item's fails
C13_ItemFailuresIsolated ==
    [][ /\ ItemStep =>
            /\ sync'.pc = sync.pc
            /\ sync'.todo = Tail(sync.todo)
            /\ sync'.item_failures \in {sync.item_failures, sync.item_failures + 1}
            /\ Len(sync'.stats.errors) - Len(sync.stats.errors)
                 = sync'.item_failures - sync.item_failures
        /\ (sync.pc \in {"records", "batch"} /\ sync'.pc = "idle") =>
            /\ sync.todo = <<>>
            /\ Len(sync.stats.errors) = sync.item_failures
            /\ last'.ok \/ (sync.pc = "batch" /\ last'.res.error = "get_profile")
            /\ last'.ok => last'.res.report.errors = sync.stats.errors ]_vars

\* a full sync whose first listed message failed has stored the second one and
\* returned a report with the one error
C13_Witness ==
    /\ Reported
    /\ last.res.report.sync_type = "full"
    /\ last.res.report.total_found = 2
    /\ last.res.report.errors = <<<<"process", 2>>>>
    /\ last.res.report.new_messages = 1
    /\ last.res.call.item_failures = 1
    /\ <<last.acc, 1>> \in DOMAIN messages

\* an incremental sync in which a download, a deletion and a label refresh
\* failed has returned a report with the three errors
C13_WitnessIncremental ==
    /\ Reported
    /\ last.res.report.sync_type = "incremental"
    /\ last.res.call.item_failures = 3
    /\ {e[1] : e \in SeqToSet(last.res.report.errors)} = {"add", "delete", "labels"}

\* C14: a sync that returns a report has stored the cursor whatever the items
\* did: the token of the profile (full) or of the change feed (incremental),
\* which is the report's history_id
C14_CursorStoredDespiteItemErrors ==
    Reported =>
        /\ last.res.report.history_id # None
        /\ last.acc \in DOMAIN cursor
        /\ last.res.report.history_id = Some(cursor[last.acc])

\* an incremental sync with a failed item has moved the cursor to the feed's
\* token
C14_Witness ==
    /\ Reported
    /\ last.res.report.sync_type = "incremental"
    /\ last.res.report.errors # <<>>
    /\ last.res.call.had_cursor
    /\ last.res.call.cursor_before # Some(cursor[last.acc])
    /\ last.res.report.history_id = Some(cursor[last.acc])

\* a first full sync in which every download failed has stored the cursor
C14_WitnessFull ==
    /\ Reported
    /\ last.res.report.sync_type = "full"
    /\ last.res.report.total_found = 2
    /\ Len(last.res.report.errors) = 2
    /\ ~last.res.call.had_cursor
    /\ last.res.report.history_id = Some(cursor[last.acc])

\* the SyncState row of the account, if any
CursorOf(cur, acc) == IF acc \in DOMAIN cur THEN Some(cur[acc]) ELSE None

\* the step ends a sync_messages call with an exception
SyncFails ==
    /\ last'.op = "sync_messages" /\ ~last'.ok
    /\ sync'.pc = "idle"
    /\ nops' # nops \/ sync.pc # "idle"

\* C15: a sync_messages call that raises leaves the account's cursor as it was
\* before the call: absent if it was absent, else with the same token
C15_FailedSyncKeepsCursor ==
    [][ SyncFails =>
          /\ cursor' = cursor
          /\ sync.pc # "idle" => CursorOf(cursor', sync.acc) = sync.cursor_before
      ]_vars

\* a forced full sync of an account with a cursor has stored a message, failed
\* at its last request and left the cursor as it was
C15_Witness ==
    /\ After("sync_messages") /\ ~last.ok
    /\ last.res.error = "get_profile"
    /\ last.res.call.had_cursor
    /\ last.res.call.force
    /\ last.res.call.items_done > 0
    /\ CursorOf(cursor, last.acc) = last.res.call.cursor_before

\* the step handles an added message of a change record
AddedStep ==
    /\ sync.pc = "records" /\ sync.todo # <<>> /\ sync' # sync
    /\ Head(sync.todo).kind = "added"

DeletedStep ==
    /\ sync.pc = "records" /\ sync.todo # <<>> /\ sync' # sync
    /\ Head(sync.todo).kind = "deleted"

\* C17: in an incremental sync a message reported as deleted is removed by its
\* identity (message id, account): afterwards the syncing account stores no
\* message of that id, and a message of the same id of another account and
\* every other message are as before (a deletion that fails is recorded as an
\* error and removes nothing)
C17_DeletedByIdentity ==
    [][ DeletedStep =>
          LET k == <<sync.acc, Head(sync.todo).id>>
          IN  \/ /\ k \notin DOMAIN messages'
                 /\ DOMAIN messages' = DOMAIN messages \ {k}
                 /\ \A j \in DOMAIN messages' : messages'[j] = messages[j]
                 /\ sync'.stats.messages_deleted = sync.stats.messages_deleted + 1
                 /\ sync'.stats.errors = sync.stats.errors
              \/ /\ Len(sync'.stats.errors) = Len(sync.stats.errors) + 1
                 /\ sync'.stats.messages_deleted = sync.stats.messages_deleted
                 /\ messages' = messages /\ rels' = rels ]_vars

\* an incremental sync has removed message 1 of the syncing account, while
\* message 1 of the other account and message 2 of the syncing account are
\* stored
C17_Witness ==
    /\ Reported
    /\ last.res.report.sync_type = "incremental"
    /\ last.res.report.messages_deleted = 1
    /\ <<last.acc, 1>> \in last.res.call.removed
    /\ <<last.acc, 1>> \notin DOMAIN messages
    /\ <<"a2", 1>> \in DOMAIN messages
    /\ <<last.acc, 2>> \in DOMAIN messages

\* the step handles a label change of a change record
LabelStep ==
    /\ sync.pc = "records" /\ sync.todo # <<>> /\ sync' # sync
    /\ Head(sync.todo).kind = "label"

\* the refresh or download failed: one more error, nothing stored
LabelItemFailed ==
    /\ Len(sync'.stats.errors) = Len(sync.stats.errors) + 1
    /\ messages' = messages

\* C18: in an incremental sync a label-changed message that is stored gets its
\* label set and history id (and with them its flags) refreshed and nothing
\* else: raw content, thread id, internal date and relationships stay and no
\* raw download is made; one that is not stored is downloaded in full and
\* stored
C18_LabelChangeRefreshesLabelsOnly ==
    [][ LabelStep =>
          LET k == <<sync.acc, Head(sync.todo).id>>
          IN  /\ rels' = rels
              /\ IF k \in DOMAIN messages
                 THEN /\ sync'.raw_requests = sync.raw_requests
                      /\ \/ LabelItemFailed
                         \/ /\ DOMAIN messages' = DOMAIN messages
                            /\ \A j \in DOMAIN messages \ {k} : messages'[j] = messages[j]
                            /\ messages'[k].raw = messages[k].raw
                            /\ messages'[k].thread_id = messages[k].thread_id
                            /\ messages'[k].internal_date = messages[k].internal_date
                            /\ \E v \in Versions :
                                 /\ messages'[k].label_ids = message_meta(k[2], v).labelIds
                                 /\ messages'[k].history_id = message_meta(k[2], v).historyId
                 ELSE /\ sync'.raw_requests = sync.raw_requests + 1
                      /\ \/ LabelItemFailed
                         \/ /\ DOMAIN messages' = DOMAIN messages \cup {k}
                            /\ \A j \in DOMAIN messages : messages'[j] = messages[j]
                            /\ HoldsRemoteValues(messages'[k], k[2]) ]_vars

\* an incremental sync has refreshed the labels of a stored, indexed message:
\* the row holds the content of the first download, the labels and history id
\* of a later version, and its relationships
C18_Witness ==
    /\ Reported
    /\ last.res.report.sync_type = "incremental"
    /\ last.res.report.labels_modified = 1
    /\ last.res.report.errors = <<>>
    /\ last.res.call.raw_requests = 0
    /\ \E k \in DOMAIN messages :
          /\ k[1] = last.acc
          /\ messages[k].raw = message_raw(k[2], 1)
          /\ messages[k].history_id = message_meta(k[2], 2).historyId
          /\ messages[k].label_ids = message_meta(k[2], 2).labelIds
          /\ RowsOfMessage(rels, k) # {}

\* an incremental sync has downloaded a label-changed message that was not
\* stored
C18_WitnessAbsent ==
    /\ Reported
    /\ last.res.report.sync_type = "incremental"
    /\ last.res.report.labels_modified = 1
    /\ last.res.report.messages_added = 0
    /\ last.res.report.errors = <<>>
    /\ last.res.call.raw_requests = 1

\* the step ends a sync_messages call with the ValueError of an account whose
\* address cannot be determined
IdentityFails ==
    /\ SyncFails
    /\ last'.res.error = "ValueError"

\* C19: a sync_messages call that cannot determine the account's address
\* raises before any work: no label lookup, no message listing, no history
\* request, no download, and no write to messages, index or cursor
C19_IdentityFailureBeforeAnyWork ==
    [][ IdentityFails =>
          /\ sync.pc = "idle"
          /\ UNCHANGED <<messages, rels, addrs, cursor, bulk>>
          /\ last'.res.report = <<>>
          /\ last'.res.call.label_lookups = 0
          /\ last'.res.call.list_calls = 0
          /\ last'.res.call.history_calls = 0
          /\ last'.res.call.full_syncs = 0
          /\ last'.res.call.raw_requests = 0
          /\ last'.res.call.items_done = 0 ]_vars

\* sync_messages has raised ValueError for an account that had stored
\* messages and a cursor from an earlier sync
C19_Witness ==
    /\ After("sync_messages") /\ ~last.ok
    /\ last.res.error = "ValueError"
    /\ SyncAccount \in DOMAIN cursor
    /\ \E k \in DOMAIN messages : k[1] = SyncAccount

\* C20: sync_messages raises (returns no report) only when the account's
\* address cannot be determined or a remote request fails before any message
\* or change record has been processed; once one has been processed the call
\* returns a report (read in the claim's favour: "processed" counts only the
\* items whose processing did not itself fail)
C20_FailsOnlyBeforeAnyItem ==
    (After("sync_messages") /\ ~last.ok) =>
        last.res.call.items_done = last.res.call.item_failures

\* the rows of address e, with their multiplicities
RowBagOfEmail(rs, e) == RestrictBag(rs, RowsOfEmail(rs, e))

\* the rows of message k, with their multiplicities
RowBagOfMessage(rs, k) == RestrictBag(rs, RowsOfMessage(rs, k))

\* the (address, role) pairs the headers of message k give
HeaderPairs(msgs, k) ==
    LET pairs == email_field_mapping(msgs[k].raw)
    IN  {<<Normalize(pairs[i].addr.email), pairs[i].field>> :
            i \in {j \in DOMAIN pairs : Normalize(pairs[j].addr.email) # ""}}

\* the step runs one batch of bulk_index_messages over the stored messages of
\* a scope
DirectBulkBatch == bulk.pc = "batch" /\ bulk.kind = "bulk_index_messages" /\ bulk' # bulk

\* C21: in bulk_index_messages over a fixed message set a message whose
\* indexing fails is counted in error_count and keeps its previous
\* relationships; the other messages of the batch and of the later batches
\* are indexed, and processed_count + error_count is the size of the set
C21_BulkFailureIsolated ==
    [][ /\ DirectBulkBatch =>
            LET done == SeqToSet(bulk'.attempted) \ SeqToSet(bulk.attempted)
            IN  /\ done # {}
                /\ bulk'.errors = Cardinality(bulk'.failed)
                /\ bulk'.processed + bulk'.errors = Len(bulk'.attempted)
                /\ \A k \in done \cap bulk'.failed :
                      RowBagOfMessage(rels', k) = RowBagOfMessage(rels, k)
                /\ \A k \in done \ bulk'.failed :
                      /\ {<<r.email_address, r.field>> : r \in RowsOfMessage(rels', k)}
                            = HeaderPairs(messages, k)
                      /\ \A r \in RowsOfMessage(rels', k) : rels'[r] = 1
                /\ \A k \in DOMAIN messages \ done :
                      RowBagOfMessage(rels', k) = RowBagOfMessage(rels, k)
        /\ (bulk.kind = "bulk_index_messages" /\ bulk.pc = "finish" /\ bulk'.pc = "idle") =>
                /\ SeqToSet(bulk.attempted) = Scope(messages, bulk.acc)
                /\ last'.res.processed_count + last'.res.error_count
                      = Cardinality(Scope(messages, bulk.acc))
                /\ last'.res.error_count = Cardinality(bulk.failed) ]_vars

\* bulk_index_messages in batches of one: the first message failed and kept
\* the relationships it had, the second was indexed in the next batch
C21_Witness ==
    /\ bulk.kind = "bulk_index_messages" /\ bulk.pc = "finish"
    /\ bulk.batch_size = 1
    /\ Len(bulk.attempted) = 2
    /\ bulk.failed = {bulk.attempted[1]}
    /\ bulk.errors = 1 /\ bulk.processed = 1
    /\ RowsOfMessage(rels, bulk.attempted[1]) # {}
    /\ RowsOfMessage(rels, bulk.attempted[2]) # {}

\* a failure in the middle of a batch of two, the other message indexed
C21_WitnessSameBatch ==
    /\ bulk.kind = "bulk_index_messages" /\ bulk.pc = "finish"
    /\ bulk.batch_size = 2
    /\ Len(bulk.attempted) = 2
    /\ bulk.failed = {bulk.attempted[1]}
    /\ RowsOfMessage(rels, bulk.attempted[1]) # {}
    /\ RowsOfMessage(rels, bulk.attempted[2]) # {}

\* C22: validate_index is read-only: for any account argument the messages,
\* the relationships, the IndexedAddress rows and the cursors are after the
\* call what they were before it
C22_ValidateIsReadOnly ==
    [][ Completes("validate_index") =>
            UNCHANGED <<messages, rels, addrs, cursor>> ]_vars

\* validate_index has reported orphans and wrong counts, and the orphaned
\* rows are still there
C22_Witness ==
    /\ After("validate_index")
    /\ last.res.report.orphaned_emails > 0
    /\ last.res.report.inconsistent_counts > 0
    /\ last.res.report.orphaned_emails = Cardinality(orphaned_emails(rels, addrs))

\* C23: cleanup_orphaned_emails, run alone, deletes exactly the IndexedAddress
\* rows that have no relationship, leaves the rows that have one, the
\* messages and the relationships as they were, and returns the number of
\* rows it deleted
C23_CleanupDeletesExactlyOrphans ==
    [][ Completes("cleanup_orphaned_emails") =>
            /\ DOMAIN addrs' = {e \in DOMAIN addrs : RowsOfEmail(rels, e) # {}}
            /\ \A e \in DOMAIN addrs' : addrs'[e] = addrs[e]
            /\ UNCHANGED <<messages, rels>>
            /\ last'.res = Cardinality(DOMAIN addrs \ DOMAIN addrs') ]_vars

\* cleanup_orphaned_emails has deleted an orphan and kept an address in use
C23_Witness ==
    /\ After("cleanup_orphaned_emails")
    /\ last.res >= 1
    /\ DOMAIN addrs # {}
    /\ \A e \in DOMAIN addrs : RowsOfEmail(rels, e) # {}

\* C24: cleanup_orphaned_emails may interleave with index_message_emails:
\* when both have finished, every relationship the headers of the indexed
\* message give exists and every relationship refers to an existing
\* IndexedAddress row
C24_CleanupSafeWithIndexing ==
    (After("cleanup_orphaned_emails") /\ last.msg # <<>>) =>
        LET k == last.msg[1]
        IN  /\ {<<r.email_address, r.field>> : r \in RowsOfMessage(rels, k)}
                  = HeaderPairs(messages, k)
            /\ \A r \in DOMAIN rels : r.email_address \in DOMAIN addrs

\* C25: after maintenance_cleanup, run alone from any index state, no
\* IndexedAddress is without a relationship and every remaining address's
\* stored message_count is its number of relationships, so validate_index
\* reports orphaned_emails = 0 and inconsistent_counts = 0
C25_MaintenanceHealsAddresses ==
    After("maintenance_cleanup") =>
        /\ \A e \in DOMAIN addrs :
              /\ RowsOfEmail(rels, e) # {}
              /\ addrs[e].message_count = BagCardinality(RowBagOfEmail(rels, e))
        /\ \A acc \in AccountArgs :
              /\ validate_index(messages, rels, addrs, acc).orphaned_emails = 0
              /\ validate_index(messages, rels, addrs, acc).inconsistent_counts = 0

\* maintenance_cleanup has removed an orphan and has corrected a stored count
\* of an address that is still in use
C25_Witness ==
    /\ After("maintenance_cleanup")
    /\ last.res.orphaned_emails_removed >= 1
    /\ last.res.drift_before
    /\ DOMAIN addrs # {}

\* the stored messages that have a relationship to address e
MessagesOfEmail(msgs, rs, e) ==
    {k \in DOMAIN msgs : \E r \in RowsOfMessage(rs, k) : r.email_address = e}

\* C26: the relationships of a message go with the message when it is
\* deleted, and once every message that referenced an address is deleted a
\* following maintenance_cleanup removes the address: after it every
\* IndexedAddress row is referenced by a stored message
C26_DeletedMessagesFreeAddresses ==
    /\ \A r \in DOMAIN rels : r.message \in DOMAIN messages
    /\ After("maintenance_cleanup") =>
          \A e \in DOMAIN addrs : MessagesOfEmail(messages, rels, e) # {}

\* a message was deleted after it had been indexed, and maintenance_cleanup
\* has removed the address only it referenced while other addresses remain
C26_Witness ==
    /\ After("maintenance_cleanup")
    /\ last.res.orphaned_emails_removed = 1
    /\ DOMAIN messages # MsgKeys
    /\ "c@x" \notin DOMAIN addrs
    /\ DOMAIN addrs # {}

\* C27: rebuild_index(account) clears and rebuilds the index of that account
\* only: a message of another account that had relationships before the call
\* has them after it
C27_RebuildKeepsOtherAccounts ==
    (After("rebuild_index") /\ last.acc # NoAccount) =>
        \A k \in last.res.indexed_before \cap DOMAIN messages :
            RowsOfMessage(rels, k) # {}

\* C28: index_message_emails is atomic per message: when it fails, after the
\* old relationships were cleared or after some of the new ones were created,
\* the relationships and the IndexedAddress rows are those from before the
\* call
C28_IndexIsAtomic ==
    [][ (Completes("index") /\ ~last'.ok) =>
            UNCHANGED <<rels, addrs, messages>> ]_vars

\* index_message_emails has failed on a message that was indexed before, and
\* the message has all the relationships its headers give
C28_Witness ==
    /\ After("index") /\ ~last.ok
    /\ last.msg \in DOMAIN messages
    /\ messages[last.msg].raw = 1
    /\ {<<r.email_address, r.field>> : r \in RowsOfMessage(rels, last.msg)}
          = HeaderPairs(messages, last.msg)

\* the ids of the remote labels that one of the names designates
IdsOfNames(label_names) ==
    {RemoteLabels[i].id : i \in
        {j \in DOMAIN RemoteLabels :
            \E n \in DOMAIN label_names :
                Lower(RemoteLabels[j].name) = Lower(label_names[n])}}

\* C29: the label filter of a sync is the given label ids together with the
\* id of every given label name the remote knows; a name it does not know is
\* dropped and the sync still returns its report, whose label_filter is this
\* filter
C29_LabelFilterResolved ==
    Reported =>
        LET a == last.res.call.largs
        IN  /\ SeqToSet(last.res.report.label_filter)
                  = SeqToSet(a.label_ids) \cup IdsOfNames(a.label_names)
            /\ SeqToSet(last.res.call.label_filter)
                  = SeqToSet(last.res.report.label_filter)

\* a sync called with an unknown name and a known one, written in another
\* case, has reported the filter made of the known label's id
C29_Witness ==
    /\ Reported
    /\ last.res.call.largs.label_names = <<"nope", "WORK">>
    /\ last.res.report.label_filter = <<"L2">>
    /\ last.res.call.items_done > 0

\* a sync called with an id and a name has reported both ids
C29_WitnessIdsAndNames ==
    /\ Reported
    /\ last.res.call.largs.label_ids = <<"L1">>
    /\ last.res.call.largs.label_names = <<"work">>
    /\ SeqToSet(last.res.report.label_filter) = {"L1", "L2"}

\* C30: update_all_message_counts writes an IndexedAddress row back only when
\* its message_count, first_seen or last_seen changed: a row whose stored
\* values equal the recomputed ones is not saved
C30_RecomputeWritesOnlyChanges ==
    After("update_all_message_counts") =>
        last.res.saved \subseteq last.res.changed

\* C31: after any sequence of full syncs, incremental syncs and forced
\* re-syncs of single messages the store holds one row per (message id,
\* account); a message delivered again is written into the row it has
C31_MessageIdentityUnique ==
    /\ \A k \in DOMAIN messages : messages[k].copies = 1
    /\ (After("force_resync_message") /\ last.ok) =>
          /\ last.msg \in DOMAIN messages
          /\ HoldsRemoteValues(messages[last.msg], last.msg[2])

\* a message stored by a sync was re-synced on its own and its row holds the
\* later version
C31_Witness ==
    /\ After("force_resync_message") /\ last.ok
    /\ last.res.stored_before
    /\ messages[last.msg].history_id = message_meta(last.msg[2], 2).historyId
    /\ messages[last.msg].raw = message_raw(last.msg[2], 2)
    /\ Cardinality({k \in DOMAIN messages : k[1] = SyncAccount}) = 2

\* an incremental sync has delivered again a message that was stored
C31_WitnessRedelivered ==
    /\ Reported
    /\ last.res.report.sync_type = "incremental"
    /\ last.res.report.messages_added >= 1
    /\ last.res.call.local_before
          = Cardinality({k \in DOMAIN messages : k[1] = SyncAccount})
    /\ last.res.call.local_before >= 1
    /\ last.res.report.messages_deleted = 0
    /\ last.res.report.labels_modified = 0
    /\ last.res.report.errors = <<>>

\* C32: the flags of a stored message are a function of its label set, after
\* every download and every label refresh and for every label set, the empty
\* one included: is_read = (UNREAD not in it), is_starred = (STARRED in it),
\* is_important = (IMPORTANT in it)
C32_FlagsFollowLabels ==
    \A k \in DOMAIN messages :
        /\ messages[k].is_read = ("UNREAD" \notin messages[k].label_ids)
        /\ messages[k].is_starred = ("STARRED" \in messages[k].label_ids)
        /\ messages[k].is_important = ("IMPORTANT" \in messages[k].label_ids)

\* the name an indexing routine op reads first for address e in message k:
\* the first non-empty display name of e in header order, MIME-decoded by
\* index_message_emails and as written by index_email_addresses
FirstNameSeen(k, e, op) ==
    LET pairs == email_field_mapping(messages[k].raw)
        named == {i \in DOMAIN pairs : /\ Normalize(pairs[i].addr.email) = e
                                       /\ pairs[i].addr.name # ""}
        name == pairs[Min(named)].addr.name
    IN  IF named = {} THEN ""
        ELSE IF op = "index" THEN decode_name(name) ELSE name

\* the step is a completed run of one of the two indexing routines
IndexingStep == last'.op \in {"index", "index_email_addresses"} /\ last'.ok

\* the names maintain_email_index can give address e: the first name of e
\* in one of the messages it indexes, or none
NamesSeenByMaintenance(e) ==
    {FirstNameSeen(k, e, "index") : k \in MissingMessages(messages, rels, last'.acc)}
        \cup {""}

C33_WitnessNamedLater ==
    /\ After("index_email_addresses")
    /\ messages[last.msg].raw = 1
    /\ \E r \in DOMAIN rels : r.email_address = "a@x" /\ r.display_name = ""
    /\ "a@x" \in DOMAIN addrs /\ addrs["a@x"].display_name = "Al"
\* the internal_date values of the messages address e is related to
DatesOfEmail(e) == {messages[r.message].internal_date : r \in RowsOfEmail(rels, e)}

\* C34: after index_message_emails with update_counts on, and after
\* update_all_message_counts, every IndexedAddress with at least one
\* relationship has first_seen equal to the earliest and last_seen equal to
\* the latest message date over the messages it is related to
C34_SeenSpanAfterCounting ==
    ( \/ After("index") /\ last.ok /\ last.res.update_counts
      \/ After("update_all_message_counts") )
    => \A e \in DOMAIN addrs :
           messages_count(rels, e) > 0
           => /\ addrs[e].first_seen = make_aware(Min(DatesOfEmail(e)))
              /\ addrs[e].last_seen = make_aware(Max(DatesOfEmail(e)))
\* the count and dates of address e, those of a row just created when e is
\* not in the table as
Aggregates(as, e) ==
    IF e \in DOMAIN as
    THEN <<as[e].message_count, as[e].first_seen, as[e].last_seen>>
    ELSE <<0, None, None>>

\* C35: final writes come last. In a sync the cursor is written only by the
\* step that ends the sync, when no listed message (full) or change record
\* item (incremental) is left to process; in bulk_index_messages a batch
\* recomputes no count or date of any address, and the whole-table
\* recomputation is the step after the last batch
C35_FinalWritesLast ==
    [][ /\ cursor' # cursor
            => /\ sync.pc \in {"records", "batch"}
               /\ sync.todo = <<>>
               /\ sync'.pc = "idle"
        /\ bulk.pc = "batch"
            => \A e \in DOMAIN addrs' : Aggregates(addrs', e) = Aggregates(addrs, e)
        /\ bulk.pc = "finish"
            => /\ bulk.batch_start >= bulk.total
               /\ Len(bulk.attempted) = bulk.total
               /\ addrs' = update_all_message_counts(messages, rels, addrs)
               /\ bulk'.pc = "idle" ]_vars

\* two batches of one message each were indexed and an address they share
\* was counted afterwards
C35_Witness ==
    /\ After("bulk_index_messages")
    /\ last.res.batch_size = 1 /\ Len(last.res.attempted) = 2
    /\ \E e \in DOMAIN addrs : addrs[e].message_count = 2

\* a sync that processed two items has written the cursor
C35_WitnessCursor ==
    /\ After("sync_messages") /\ last.ok
    /\ last.res.call.items_done >= 2
    /\ last.acc \in DOMAIN cursor
    /\ last.res.call.cursor_before # Some(cursor[last.acc])
\* the (address, field) pairs message k is related by
PairsOfMessage(k) == {<<r.email_address, r.field>> : r \in RowsOfMessage(rels, k)}

\* C36: after a sync and the maintain_email_index that follows it, every
\* indexed message, one the sync downloaded again with other addresses
\* included, is related to exactly the addresses of its current headers
C36_ResyncedMessageReindexed ==
    (After("maintain_email_index") /\ last.res.after_sync)
    => \A k \in DOMAIN messages :
           RowsOfMessage(rels, k) # {} => PairsOfMessage(k) = HeaderPairs(messages, k)
\* the IndexedEmailAddress rows the step deletes
RemovedAddresses == DOMAIN addrs \ DOMAIN addrs'

\* C37: only cleanup_orphaned_emails, maintenance_cleanup (alone or inside
\* maintain_email_index) and clear_index delete IndexedEmailAddress rows, and
\* the cleanups delete orphans only; no step of index_message_emails,
\* bulk_index_messages, update_all_message_counts or sync_messages deletes
\* one, so an address without relationships stays until a cleanup
C37_OnlyCleanupRemovesAddresses ==
    [][ RemovedAddresses # {}
        => /\ nops' # nops
           /\ last'.op \in {"cleanup_orphaned_emails", "maintenance_cleanup",
                            "maintain_email_index", "clear_index"}
           /\ last'.op # "clear_index"
                 => RemovedAddresses \subseteq orphaned_emails(rels, addrs) ]_vars

\* a sync has deleted the last message of an indexed address, which is
\* still in the table
C37_Witness ==
    /\ After("sync_messages") /\ last.ok
    /\ last.res.report.sync_type = "incremental"
    /\ last.res.report.messages_deleted > 0
    /\ orphaned_emails(rels, addrs) # {}

\* the task that follows the sync has removed the orphans
C37_WitnessRemoved ==
    /\ After("maintain_email_index") /\ last.res.after_sync
    /\ last.res.result.orphaned_emails > 0
    /\ orphaned_emails(rels, addrs) = {}
\* the tables after index_message_emails of ka and then of kb, one after the
\* other, from the tables st
IndexedInOrder(st, ka, kb) ==
    LET first == index_message_emails(messages, st.rels, st.addrs, ka, TRUE)
        second == index_message_emails(messages, first.rels, first.addrs, kb, TRUE)
    IN  [rels |-> second.rels, addrs |-> second.addrs]

\* C38: when index_message_emails has run concurrently on a message of each
\* of two accounts, the relationships and the IndexedEmailAddress rows,
\* message_count included, are those of running the two calls one after the
\* other in one of the two orders
C38_ConcurrentIndexingSerializable ==
    After("index_concurrently")
    => \/ [rels |-> rels, addrs |-> addrs]
              = IndexedInOrder(last.res.before, last.msg[1], last.msg[2])
       \/ [rels |-> rels, addrs |-> addrs]
              = IndexedInOrder(last.res.before, last.msg[2], last.msg[1])
\* C39: after fix_missing_entries has returned with error_count == 0,
\* validate_index for the same scope reports missing_messages == 0, whatever
\* the stored messages and the batch size
C39_FixMissingLeavesNoneMissing ==
    (After("fix_missing_entries") /\ last.res.error_count = 0)
    => validate_index(messages, rels, addrs, last.acc).missing_messages = 0
\* C40: whenever maintain_email_index returns success, with issues_fixed the
\* total_issues of its initial validation, a validate_index of the same
\* scope right after it reports total_issues == 0; stated for the runs in
\* which every message of the scope holds an address and no indexing failed
C40_MaintenanceRepairsWhatItReports ==
    (/\ After("maintain_email_index") /\ last.res.result.success
     /\ last.res.error_count = 0
     /\ \A k \in Scope(messages, last.acc) : HasAddress(messages[k].raw))
    => validate_index(messages, rels, addrs, last.acc).total_issues = 0

====
